----------------------------- MODULE SerialBook -----------------------------
(***************************************************************************)
(* What a register of authorised serial numbers promises the tax office:   *)
(* within each series numbers are consumed one after the other, each once, *)
(* as an issued or a spoiled document; an issued one may be cancelled, and *)
(* no number is ever consumed again.  No handlers, locks or retries.       *)
(***************************************************************************)
EXTENDS Integers

CONSTANTS Series,   \* the registered ranges
          Start,    \* [Series -> Nat]: the first number a range hands out
          Last      \* [Series -> Nat]: its last number

VARIABLES next,     \* [Series -> Nat]: the next number of each range
          used      \* the consumed numbers, [series, serial, fate]

Fates == {"issued", "spoiled", "cancelled"}

Entry(s, n, fate) == [series |-> s, serial |-> n, fate |-> fate]

Init ==
    /\ next = Start
    /\ used = {}

Consume(s, fate) ==
    /\ next[s] <= Last[s]
    /\ next' = [next EXCEPT ![s] = @ + 1]
    /\ used' = used \union {Entry(s, next[s], fate)}

Cancel(e) ==
    /\ e.fate = "issued"
    /\ used' = (used \ {e}) \union {Entry(e.series, e.serial, "cancelled")}
    /\ UNCHANGED next

Next ==
    \/ \E s \in Series, fate \in {"issued", "spoiled"} : Consume(s, fate)
    \/ \E e \in used : Cancel(e)

Book == Init /\ [][Next]_<<next, used>>
=============================================================================
