------------------------------ MODULE TxnHash ------------------------------
(***************************************************************************)
(* The hash tables in which a transaction keeps the records it read and    *)
(* wrote (as_txn.c).  A row holds its first element itself; the others     *)
(* hang in a chain of allocated elements behind it.                        *)
(*   h = [n_eles, table : row -> [used, head], mem : address -> element]   *)
(* An element is [digest, version, next]; address 0 is NULL.  "mem" holds  *)
(* the allocated elements: to use another address is an error of TLC.      *)
(***************************************************************************)
EXTENDS Integers, Sequences, FiniteSets, FiniteSetsExt, TLC

CONSTANTS n_rows, Addresses   \* Addresses: the heap, a bound

NULL == 0
Unused == [used |-> FALSE, head |-> [digest |-> 0, version |-> 0, next |-> NULL]]

as_txn_hash_init == [n_eles |-> 0, table |-> [i \in 0..(n_rows - 1) |-> Unused], mem |-> <<>>]

get_row(keyd) == keyd % n_rows
fill_ele(keyd, version) == [digest |-> keyd, version |-> version, next |-> NULL]

Drop(mem, addresses) == [a \in DOMAIN mem \ addresses |-> mem[a]]

\* The addresses of a chain from "a" on.
RECURSIVE Chain(_, _)
Chain(h, a) == IF a = NULL THEN {} ELSE {a} \cup Chain(h, h.mem[a].next)

ChainOf(h, i) == IF h.table[i].used THEN Chain(h, h.table[i].head.next) ELSE {}

as_txn_hash_clear(h) ==
    [n_eles |-> 0, table |-> [i \in DOMAIN h.table |-> Unused],
     mem |-> Drop(h.mem, UNION {ChainOf(h, i) : i \in DOMAIN h.table})]

\* Where a key is: the head of its row, an address of the chain, or nowhere.
Found(h, keyd) ==
    LET row == h.table[get_row(keyd)]
        in == {a \in ChainOf(h, get_row(keyd)) : h.mem[a].digest = keyd}
    IN  CASE row.used /\ row.head.digest = keyd -> [at |-> "head", a |-> NULL]
          [] row.used /\ row.head.digest # keyd /\ in # {} -> [at |-> "chain", a |-> Min(in)]
          [] OTHER -> [at |-> "none", a |-> NULL]

as_txn_hash_put(h, keyd, version) ==
    LET i == get_row(keyd)
        f == Found(h, keyd)
        e == Min(Addresses \ DOMAIN h.mem)
        row == h.table[i]
    IN  CASE ~row.used ->
                [h EXCEPT !.table[i] = [used |-> TRUE, head |-> fill_ele(keyd, version)], !.n_eles = @ + 1]
          [] f.at = "head" -> [h EXCEPT !.table[i].head.version = version]
          [] f.at = "chain" -> [h EXCEPT !.mem[f.a].version = version]
          [] OTHER ->  \* Insert just after head.
                [h EXCEPT !.table[i].head.next = e, !.n_eles = @ + 1,
                          !.mem = (e :> [fill_ele(keyd, version) EXCEPT !.next = row.head.next]) @@ @]

RemoveHead(h, i) ==
    LET next == h.table[i].head.next
    IN  IF next = NULL THEN [h EXCEPT !.table[i] = Unused, !.n_eles = @ - 1]
        ELSE [h EXCEPT !.table[i].head = h.mem[next], !.mem = Drop(h.mem, {next}), !.n_eles = @ - 1]

\* The element before "a" leads past it.
Unlink(h, i, a) ==
    LET next == h.mem[a].next
        led == IF h.table[i].head.next = a THEN [h EXCEPT !.table[i].head.next = next]
               ELSE [h EXCEPT !.mem = [b \in DOMAIN h.mem |-> IF h.mem[b].next = a THEN [h.mem[b] EXCEPT !.next = next]
                                                               ELSE h.mem[b]]]
    IN  [led EXCEPT !.mem = Drop(led.mem, {a}), !.n_eles = @ - 1]

RemoveRow(h, keyd) ==  \* mutant
    LET i == get_row(keyd)
        f == Found(h, keyd)
    IN  CASE f.at = "head" -> [h EXCEPT !.table[i] = Unused, !.n_eles = @ - 1]
          [] f.at = "chain" -> Unlink(h, i, f.a)
          [] OTHER -> h
as_txn_hash_remove(h, keyd) ==
    LET i == get_row(keyd)
        f == Found(h, keyd)
    IN  CASE f.at = "head" -> RemoveHead(h, i)
          [] f.at = "chain" -> Unlink(h, i, f.a)
          [] OTHER -> h

as_txn_hash_contains(h, keyd) == Found(h, keyd).at # "none"

as_txn_hash_get_version(h, keyd) ==
    LET f == Found(h, keyd)
    IN  CASE f.at = "head" -> h.table[get_row(keyd)].head.version
          [] f.at = "chain" -> h.mem[f.a].version
          [] OTHER -> 0

-----------------------------------------------------------------------------
(* The iterator: "idx" is the next row, "ele" the rest of the chain.        *)

\* [key, iter]; key 0 at the end.
IterSkipsChain(iter) ==  \* mutant
    LET later == {i \in DOMAIN iter.khash.table : i >= iter.idx /\ iter.khash.table[i].used}
    IN  IF later # {} THEN [key |-> iter.khash.table[Min(later)].head.digest, iter |-> [iter EXCEPT !.idx = Min(later) + 1]]
        ELSE [key |-> 0, iter |-> iter]
as_txn_iter_next(iter) ==
    LET later == {i \in DOMAIN iter.khash.table : i >= iter.idx /\ iter.khash.table[i].used}
        head == iter.khash.table[Min(later)].head
        ele == iter.khash.mem[iter.ele]
    IN  CASE iter.ele # NULL -> [key |-> ele.digest, iter |-> [iter EXCEPT !.ele = ele.next]]
          [] iter.ele = NULL /\ later # {} ->
                [key |-> head.digest, iter |-> [iter EXCEPT !.ele = head.next, !.idx = Min(later) + 1]]
          [] OTHER -> [key |-> 0, iter |-> iter]

\* The keys a loop over the iterator meets, in its order.
RECURSIVE Iterated(_)
Iterated(iter) ==
    LET n == as_txn_iter_next(iter) IN IF n.key = 0 THEN <<>> ELSE <<n.key>> \o Iterated(n.iter)

-----------------------------------------------------------------------------
(* The transaction: [reads, writes, write_in_doubt, deadline].              *)

as_txn_init_all == [reads |-> as_txn_hash_init, writes |-> as_txn_hash_init, write_in_doubt |-> FALSE, deadline |-> 0]

as_txn_on_read(txn, digest, version) ==
    IF version # 0 THEN [txn EXCEPT !.reads = as_txn_hash_put(@, digest, version)] ELSE txn

as_txn_on_write(txn, digest, version, rc) ==
    CASE version # 0 -> [txn EXCEPT !.reads = as_txn_hash_put(@, digest, version)]
      [] version = 0 /\ rc = "OK" ->
            [txn EXCEPT !.reads = as_txn_hash_remove(@, digest), !.writes = as_txn_hash_put(@, digest, 0)]
      [] OTHER -> txn

as_txn_on_write_in_doubt(txn, digest) ==
    [txn EXCEPT !.write_in_doubt = TRUE, !.reads = as_txn_hash_remove(@, digest), !.writes = as_txn_hash_put(@, digest, 0)]

as_txn_get_read_version(txn, digest) == as_txn_hash_get_version(txn.reads, digest)
as_txn_writes_contain(txn, digest) == as_txn_hash_contains(txn.writes, digest)
as_txn_clear(txn) ==
    [txn EXCEPT !.deadline = 0, !.reads = as_txn_hash_clear(@), !.writes = as_txn_hash_clear(@)]
=============================================================================
