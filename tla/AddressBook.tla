----------------------------- MODULE AddressBook -----------------------------
(***************************************************************************)
(* What the mapped DNS of hev-socks5-tunnel promises its users: a name     *)
(* that is asked for gets one of Max addresses and keeps it until Max      *)
(* other names have been used since its own last use.  A name is used when *)
(* it is asked for and when a connection to its address is opened.         *)
(***************************************************************************)
EXTENDS Integers, FiniteSets

CONSTANTS
  Names,   \* domain names
  Max,     \* addresses that can be given, one at least
  NoName   \* of an address that has not been given, no name

VARIABLES
  owner,   \* the name an address stands for
  since    \* the other names used since the last use of a name

Addresses == 0 .. Max - 1

Used(n) == since' = [m \in Names |-> IF m = n THEN {} ELSE since[m] \cup {n}]

Init ==
  /\ owner = [a \in Addresses |-> NoName]
  /\ since = [n \in Names |-> {}]

UseKnown(n) ==
  /\ \E a \in Addresses : owner[a] = n
  /\ Used(n)
  /\ UNCHANGED owner

(* An address nobody has, or one whose name may be forgotten by now. *)
UseNew(n) ==
  /\ \A a \in Addresses : owner[a] # n
  /\ Used(n)
  /\ \E a \in Addresses :
       /\ owner[a] # NoName => Cardinality(since'[owner[a]]) >= Max
       /\ owner' = [owner EXCEPT ![a] = n]

Next == \E n \in Names : UseKnown(n) \/ UseNew(n)

Spec == Init /\ [][Next]_<<owner, since>>
=============================================================================
