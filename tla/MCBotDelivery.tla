--------------------------- MODULE MCBotDelivery ---------------------------
(***************************************************************************)
(* A small instance of module BotDelivery for TLC: two notifications of    *)
(* the channel, one with a deadline, and one of each other kind.           *)
(***************************************************************************)
EXTENDS BotDelivery

Named == [n \in Notifications |->
  CASE n = "foreign" -> "Foreign" [] n = "unrendered" -> "Unrendered"
    [] n = "malformed" -> "Malformed" [] OTHER -> "Own"]
=============================================================================
