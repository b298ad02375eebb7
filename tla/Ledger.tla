------------------------------- MODULE Ledger -------------------------------
(***************************************************************************)
(* What the stream promises about its effective state, whatever the        *)
(* engine, the watermark and the components do: a book with one entry per  *)
(* record.  An entry is provisional, and free to change, until it is       *)
(* closed; a closed entry says what it said just before, and never changes *)
(* again; a match is written, and closed, in all its records at once.      *)
(***************************************************************************)
CONSTANT Record

VARIABLE book   \* book[r]: finality, type, inputs and reason of the entry on r

Entries == DOMAIN book
Open(r) == book[r].finality = "PROVISIONAL"

Says(e) == <<e.type, e.inputs, e.reason>>

(* Every record of a match tells the same match, closed the same way. *)
Whole(b) ==
  \A r \in DOMAIN b : b[r].type = "MATCH" =>
    /\ r \in b[r].inputs
    /\ b[r].inputs \subseteq DOMAIN b
    /\ \A x \in b[r].inputs : /\ b[x].type = "MATCH"
                              /\ b[x].inputs = b[r].inputs
                              /\ b[x].finality = b[r].finality

Kept(S) == \A r \in S : book'[r] = book[r]

Init == book = [r \in {} |-> {}]

(* A new record is open; other open entries may be revised. *)
Enter(r) == /\ r \notin Entries
            /\ DOMAIN book' = Entries \cup {r}
            /\ Kept({x \in Entries : ~ Open(x)})
            /\ \A x \in DOMAIN book' : (x \notin Entries \/ Open(x)) => Open(x)'
            /\ Whole(book')

(* A new record is closed on arrival, as a break of its own. *)
TurnAway(r) == /\ r \notin Entries
               /\ DOMAIN book' = Entries \cup {r}
               /\ Kept(Entries)
               /\ ~ Open(r)'
               /\ book'[r].type = "BREAK" /\ book'[r].inputs = {r}

(* Open entries S are closed as they stand; other open ones may be revised. *)
Close(S) == /\ S # {} /\ \A r \in S : Open(r)
            /\ DOMAIN book' = Entries
            /\ Kept({x \in Entries : ~ Open(x)})
            /\ \A r \in S : ~ Open(r)' /\ Says(book'[r]) = Says(book[r])
            /\ \A x \in Entries \ S : Open(x) => Open(x)'
            /\ Whole(book')

Next == \/ \E r \in Record : Enter(r) \/ TurnAway(r)
        \/ \E S \in SUBSET Entries : Close(S)

Spec == Init /\ [][Next]_book
=============================================================================
