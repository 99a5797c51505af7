----------------------------- MODULE MCServices ------------------------------
(***************************************************************************)
(* What the server keeps of those it serves: their accounts, their sessions, *)
(* and who is heard in the voice relay and the forwarding unit.  These share *)
(* no state: in each behaviour one of them moves and the others stay where   *)
(* they began, so that one run checks them all.                             *)
(***************************************************************************)
EXTENDS Accounts, Sessions, VoiceRelay, Forwarding, TLC

VARIABLE service

MCInit ==
    /\ service \in {"accounts", "sessions", "voice", "forwarding"}
    /\ AccountsInit /\ SessionsInit /\ VoiceInit /\ ForwardingInit

MCNext ==
    /\ UNCHANGED service
    /\ \/ /\ service = "accounts" /\ AccountsNext
          /\ UNCHANGED <<sessionVars, voiceVars, forwardingVars>>
       \/ /\ service = "sessions" /\ SessionsNext
          /\ UNCHANGED <<accountsVars, voiceVars, forwardingVars>>
       \/ /\ service = "voice" /\ VoiceNext
          /\ UNCHANGED <<accountsVars, sessionVars, forwardingVars>>
       \/ /\ service = "forwarding" /\ ForwardingNext
          /\ UNCHANGED <<accountsVars, sessionVars, voiceVars>>

MCSpec == MCInit /\ [][MCNext]_<<service, accountsVars, sessionVars, voiceVars, forwardingVars>>

Symmetric == Permutations(Client) \cup Permutations(Nickname)
=============================================================================
