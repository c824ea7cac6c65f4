------------------------------ MODULE TokenChain ------------------------------
(***************************************************************************)
(* What the login of a device promises, whoever asks for it and in what    *)
(* order: at any time at most one refresh token stands for the device, an  *)
(* exchange puts a token that was never issued in the place of the one it  *)
(* takes, and a device whose token was given up gets no other.             *)
(***************************************************************************)
EXTENDS Naturals

CONSTANTS Device, MaxTokens

VARIABLES
  issued,   \* how many tokens were issued: they are numbered in order
  standing, \* per device: the tokens that can be exchanged
  ended     \* devices whose login is over

vars == <<issued, standing, ended>>

TypeOK ==
  /\ issued \in 0..MaxTokens
  /\ standing \in [Device -> SUBSET (1..MaxTokens)]
  /\ ended \subseteq Device

Init ==
  /\ issued = 0
  /\ standing = [d \in Device |-> {}]
  /\ ended = {}

Issue(d) ==
  /\ issued < MaxTokens
  /\ issued' = issued + 1
  /\ standing' = [standing EXCEPT ![d] = {issued + 1}]
  /\ UNCHANGED ended

Open(d) == standing[d] = {} /\ d \notin ended /\ Issue(d)
Exchange(d) == standing[d] # {} /\ Issue(d)

End(d) ==
  /\ standing[d] # {}
  /\ standing' = [standing EXCEPT ![d] = {}]
  /\ ended' = ended \cup {d}
  /\ UNCHANGED issued

Next == \E d \in Device : Open(d) \/ Exchange(d) \/ End(d)

Spec == Init /\ [][Next]_vars
================================================================================
