----------------------------- MODULE MCLiveCard -----------------------------
(***************************************************************************)
(* A small instance of module LiveCard for TLC: two messages of a chat and *)
(* a final of two lots, the second put up once the first is sold.          *)
(***************************************************************************)
EXTENDS LiveCard, TLC

CONSTANTS a, b, m1, m2

At(active, va, vb) ==
  [active |-> active, version |-> (a :> va @@ b :> vb)]

TwoLots == <<At(a, 1, 1), At(b, 2, 2), At(NoLot, 2, 3)>>

EitherMessage == Permutations(Messages)

(* What a property or a later step can still depend on.  Left out: what is *)
(* unheard of a message that no card is open on (a press that opens one    *)
(* draws it first); the messages released, once the restoration is over;   *)
(* and the bucket with the calls to it, once its record is left to chance  *)
(* and no restart is left to read it.                                      *)
Told(m) ==
  \/ registry.card.message = m
  \/ press.step = "Drawn" /\ press.message = m
  \/ restoring # NotRestoring

BucketIsDead == astray /\ events = MaxEvents /\ restoring.step # "Reading"

CardView ==
  <<now, screen, press, restoring, events, late, astray,
    [registry EXCEPT
       !.released = IF restoring = NotRestoring THEN {} ELSE @,
       !.writes = IF BucketIsDead THEN <<>> ELSE @,
       !.saved = IF BucketIsDead THEN NoLot ELSE @],
    IF BucketIsDead THEN <<>> ELSE <<record, strays, misplaced /\ ~astray>>,
    [m \in Messages |-> IF Told(m) THEN unheard[m] ELSE "Nothing"]>>
=============================================================================
