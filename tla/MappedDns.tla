------------------------------ MODULE MappedDns ------------------------------
(***************************************************************************)
(* The mapped DNS of hev-socks5-tunnel (hev-mapped-dns.c): fake addresses  *)
(* for domain names, kept in a cache of Max records that gives up the      *)
(* least recently used one.  All of it runs in the one thread of the       *)
(* tunnel and never yields, so a call is an action.                        *)
(*                                                                         *)
(* A node of the code is its name here: the red-black tree is the set of   *)
(* names that have an idx, the list a sequence of names.                   *)
(***************************************************************************)
EXTENDS Integers, Sequences, FiniteSets

CONSTANTS
  Names,    \* domain names
  Max,      \* mapdns cache-size
  Hosts,    \* addresses of the mapdns network: ~mask + 1
  NoName,   \* an empty record
  NoIdx     \* the idx of a name that has no node

ASSUME DnsAssumption ==
  /\ Max \in Nat \ {0}
  /\ Hosts \in Nat /\ Max < Hosts   \* hev_mapped_dns_construct refuses the rest
  /\ NoName \notin Names
  /\ NoIdx \notin Nat

VARIABLES
  list,     \* the nodes, least recently used first
  records,  \* the node of each index
  idx,      \* node->idx
  use,      \* records in use
  since     \* history: the other names used since the last use of a name

vars == <<list, records, idx, use, since>>

Indices == 0 .. Max - 1

HasNode(n) == idx[n] # NoIdx

(* hev_list_del and hev_list_add_tail of the node at position p. *)
ToTail(s, p) ==
  [k \in 1 .. Len(s) |-> IF k < p THEN s[k] ELSE IF k < Len(s) THEN s[k + 1] ELSE s[p]]

Used(n) == since' = [m \in Names |-> IF m = n THEN {} ELSE since[m] \cup {n}]

-----------------------------------------------------------------------------

(* Mutant: first in, first out. *)
Touch_Not(n) == UNCHANGED list

Touch(n) == \E p \in 1 .. Len(list) : list[p] = n /\ list' = ToTail(list, p)

(* hev_mapped_dns_find of a name that has a node. *)
FindKnown(n) ==
  /\ HasNode(n)
  /\ Touch(n)
  /\ Used(n)
  /\ UNCHANGED <<records, idx, use>>

(* Mutant: one record too many is given out before any is reused. *)
FindNew_OffByOne(n) ==
  /\ ~HasNode(n)
  /\ use <= Max
  /\ list' = Append(list, n)
  /\ records' = [records EXCEPT ![use] = n]
  /\ idx' = [idx EXCEPT ![n] = use]
  /\ use' = use + 1
  /\ Used(n)

(* hev_mapped_dns_find of a new name while there are records left. *)
FindNew(n) ==
  /\ ~HasNode(n)
  /\ use < Max
  /\ list' = Append(list, n)
  /\ records' = [records EXCEPT ![use] = n]
  /\ idx' = [idx EXCEPT ![n] = use]
  /\ use' = use + 1
  /\ Used(n)

(* Mutant: the node that is freed stays in the tree. *)
FindEvicts_KeepsNode(n) ==
  /\ ~HasNode(n)
  /\ use = Max
  /\ list' = Tail(Append(list, n))
  /\ records' = [records EXCEPT ![idx[Head(list)]] = n]
  /\ idx' = [idx EXCEPT ![n] = idx[Head(list)]]
  /\ Used(n)
  /\ UNCHANGED use

(* hev_mapped_dns_find of a new name in place of the first node. *)
FindEvicts(n) ==
  /\ ~HasNode(n)
  /\ use = Max
  /\ LET old == Head(list)
     IN /\ list' = Tail(Append(list, n))
        /\ records' = [records EXCEPT ![idx[old]] = n]
        /\ idx' = [idx EXCEPT ![n] = idx[old], ![old] = NoIdx]
  /\ Used(n)
  /\ UNCHANGED use

(* hev_mapped_dns_lookup of an address with the low bits host, ip & ~mask; *)
(* the rest of the address is not looked at, so that one outside the       *)
(* network is a use of a record as well.  One beyond the records or of an  *)
(* empty record is answered NULL.                                          *)
Lookup(host) ==
  /\ host < Max
  /\ records[host] # NoName
  /\ Touch(records[host])
  /\ Used(records[host])
  /\ UNCHANGED <<records, idx, use>>

-----------------------------------------------------------------------------

Init ==
  /\ list = <<>>
  /\ records = [i \in Indices |-> NoName]
  /\ idx = [n \in Names |-> NoIdx]
  /\ use = 0
  /\ since = [n \in Names |-> {}]

(* A query of hev_mapped_dns_handle is one Find for each A question. *)
Next ==
  \/ \E n \in Names : FindKnown(n) \/ FindNew(n) \/ FindEvicts(n)
  \/ \E host \in 0 .. Hosts - 1 : Lookup(host)

Spec == Init /\ [][Next]_vars

-----------------------------------------------------------------------------

Listed == {list[p] : p \in 1 .. Len(list)}

TypeOK ==
  /\ list \in Seq(Names)
  /\ records \in [Indices -> Names \cup {NoName}]
  /\ idx \in [Names -> Indices \cup {NoIdx}]
  /\ use \in 0 .. Max
  /\ since \in [Names -> SUBSET Names]

(* Tree, list and records agree: a name in the tree is in the list once,   *)
(* its record is its own, and a record in use belongs to a node that has   *)
(* not been freed.                                                         *)
Consistent ==
  /\ Len(list) = use
  /\ \A p, q \in 1 .. Len(list) : list[p] = list[q] => p = q
  /\ Listed = {n \in Names : HasNode(n)}
  /\ \A n \in Listed : records[idx[n]] = n
  /\ \A i \in Indices : records[i] # NoName => idx[records[i]] = i
  /\ \A i \in Indices : records[i] = NoName <=> i >= use

(* The nodes behind a node in the list are the names used since. *)
ListIsRecency ==
  \A p \in 1 .. Len(list) : since[list[p]] = {list[q] : q \in p + 1 .. Len(list)}

DnsInv == TypeOK /\ Consistent /\ ListIsRecency

Book == INSTANCE AddressBook WITH owner <- records, since <- since

(* The cache keeps the promise of AddressBook: the address a client has    *)
(* been told stands for the same name until Max others have been used.     *)
KeepsAddresses == Book!Spec
=============================================================================
