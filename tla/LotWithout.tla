----------------------------- MODULE LotWithout -----------------------------
(***************************************************************************)
(* Two lots trade side by side: in one everybody takes part, in the other, *)
(* `world`, everybody but the intruder, command by command at the same     *)
(* instants.  When the intruder is removed from the first, its leader must *)
(* be the leader of the second, and its price the lower of the two: the    *)
(* oracle of RemovalSpec.scala, over every history instead of samples of   *)
(* them.  Like that oracle it follows histories in which the second lot    *)
(* refuses no command.                                                     *)
(***************************************************************************)
EXTENDS Lot

CONSTANT Intruder

ASSUME IntruderAssumption == Intruder \in Participants

VARIABLES
  world,          \* the lot that trades without the intruder
  worldSequence,  \* the number of its last event
  worldLast       \* the first event of its last transaction

worldVars == <<world, worldSequence, worldLast>>

World == INSTANCE Lot
  WITH lot <- world, sequence <- worldSequence, last <- worldLast

JointInit == Init /\ World!Init

Others == Participants \ {Intruder}

Prepare ==
  \/ DraftLot /\ World!DraftLot
  \/ \E price \in StartingPrices, config \in Configs :
       ScheduleLot(price, config) /\ World!ScheduleLot(price, config)
  \/ \E deadline \in Deadlines, windows \in OpeningWindows :
       OpenLot(deadline, windows) /\ World!OpenLot(deadline, windows)

OthersAct ==
  \/ \E p \in Others, amount \in BidAmounts :
       PlaceBid(p, amount, "Bot") /\ World!PlaceBid(p, amount, "Bot")
  \/ \E p \in Others, max \in LimitAmounts :
       SetProxyLimit(p, max) /\ World!SetProxyLimit(p, max)
  \/ \E p \in Others : WithdrawProxyLimit(p) /\ World!WithdrawProxyLimit(p)
  \/ \E window \in LaunchedWindows :
       AddStepWindow(window) /\ World!AddStepWindow(window)
  \/ \E window \in PeriodWindows :
       SetPeriodWindow(window) /\ World!SetPeriodWindow(window)
  \/ \E window \in PeriodWindows :
       ClearPeriodWindow(window.period) /\ World!ClearPeriodWindow(window.period)

IntruderActs ==
  /\ \/ \E amount \in BidAmounts : PlaceBid(Intruder, amount, "Bot")
     \/ \E max \in LimitAmounts : SetProxyLimit(Intruder, max)
     \/ WithdrawProxyLimit(Intruder)
     \/ RemoveParticipant(Intruder)
  /\ UNCHANGED worldVars

(* The histories end with the removal.                                     *)
JointNext ==
  /\ Intruder \notin lot.course.removed
  /\ \/ Prepare
     \/ OthersAct
     \/ IntruderActs
     \/ Tick /\ UNCHANGED worldVars

jointVars == <<vars, worldVars>>

JointSpec == JointInit /\ [][JointNext]_jointVars

(* The outcome of the removal, as the second lot tells it.                 *)
AsIfNeverThere ==
  /\ lot'.leader = world.leader
  /\ lot'.price = Lesser(world.price, lot.price)

(* After the removal the lot is as if the intruder had never taken part,   *)
(* only never dearer than it was (Lot.removal, Lot.rerun).                 *)
RemovalUndoesTheIntruder ==
  [][(Intruder \in lot'.course.removed) => AsIfNeverThere]_jointVars
=============================================================================
