---------------------------- MODULE KeyboardOwner ----------------------------
(***************************************************************************)
(* What the processes of dndmode promise together, without the files and   *)
(* the lock they do it with: the keyboard belongs to nobody, to one shield *)
(* or to one capture; a shield answers to the unlock secret in force when  *)
(* it went up, and the secret stays in force until the shield is down.     *)
(***************************************************************************)

CONSTANTS
  Shielders,  \* processes that may raise a shield
  Setters,    \* processes that may capture a new secret
  Secrets     \* unlock secrets

VARIABLES
  owner,      \* <<process, what it holds the keyboard for>>, or nobody
  secret,     \* the unlock secret in force
  armed       \* secrets a raised shield answers to: none or one

keyboard == <<owner, secret, armed>>

Nobody == <<"nobody", "free">>

Init ==
  /\ owner = Nobody
  /\ secret \in Secrets
  /\ armed = {}

RaiseShield(p) ==
  /\ owner = Nobody
  /\ owner' = <<p, "shield">>
  /\ armed' = {secret}
  /\ UNCHANGED secret

BeginCapture(s) ==
  /\ owner = Nobody
  /\ owner' = <<s, "capture">>
  /\ UNCHANGED <<secret, armed>>

LetGo ==
  /\ owner # Nobody
  /\ owner' = Nobody
  /\ armed' = {}
  /\ UNCHANGED secret

\* A secret is replaced only while nobody owns the keyboard.
ReplaceSecret ==
  /\ owner = Nobody
  /\ secret' \in Secrets
  /\ UNCHANGED <<owner, armed>>

Next ==
  \/ \E p \in Shielders : RaiseShield(p)
  \/ \E s \in Setters : BeginCapture(s)
  \/ LetGo
  \/ ReplaceSecret

Spec == Init /\ [][Next]_keyboard
=============================================================================
