----------------------------- MODULE PeerLedger -----------------------------
(***************************************************************************)
(* What the peer manager promises, whatever file and device it keeps it    *)
(* with (peers.Manager in src/internal/peers/peers.go): a book of peers    *)
(* that outlives the process, and the peers that have access now.          *)
(*                                                                         *)
(* A peer gets its access before it is entered in the book and loses it    *)
(* before it is struck out, so that the book never shows more access than  *)
(* there is while the tunnel runs; a start serves exactly the book; and    *)
(* who was struck out never comes back.                                    *)
(***************************************************************************)
CONSTANT Keys       \* public keys

VARIABLES
    open,           \* the tunnel runs
    book,           \* keys that are on record
    served,         \* keys with access
    acked,          \* keys whose owners were told that they are enrolled
    struck          \* keys whose removal was reported as done

ledger == <<open, book, served, acked, struck>>

-----------------------------------------------------------------------------
Init ==
    /\ open = FALSE /\ served = {}
    /\ book \subseteq Keys /\ acked = book
    /\ struck = {}

Admit(k) ==
    /\ open
    /\ k \notin book \cup served \cup struck
    /\ served' = served \cup {k}
    /\ UNCHANGED <<open, book, acked, struck>>

(* Without a tunnel there is only the book.                                *)
Record(k) ==
    /\ k \notin struck
    /\ open => k \in served
    /\ book' = book \cup {k}
    /\ UNCHANGED <<open, served, acked, struck>>

Confirm(k) ==
    /\ k \in book
    /\ open => k \in served
    /\ acked' = acked \cup {k}
    /\ UNCHANGED <<open, book, served, struck>>

(* Access ends: a removal, or an enrolment that is taken back.             *)
Cut(k) ==
    /\ served' = served \ {k} /\ acked' = acked \ {k}
    /\ UNCHANGED <<open, book, struck>>

Strike(k) ==
    /\ k \in book /\ k \notin served \cup acked
    /\ book' = book \ {k} /\ struck' = struck \cup {k}
    /\ UNCHANGED <<open, served, acked>>

(* The tunnel ends with the process; the enrolment under way may just have *)
(* been recorded.                                                          *)
Stop ==
    /\ open' = FALSE /\ served' = {}
    /\ \E K \in SUBSET (Keys \ struck) :
           /\ \A j, k \in K : j = k
           /\ book' = book \cup K
    /\ UNCHANGED <<acked, struck>>

Start ==
    /\ ~ open /\ open' = TRUE
    /\ served' = book
    /\ UNCHANGED <<book, acked, struck>>

Next ==
    \/ \E k \in Keys : Admit(k) \/ Record(k) \/ Confirm(k) \/ Cut(k) \/ Strike(k)
    \/ Stop \/ Start

Spec == Init /\ [][Next]_ledger

-----------------------------------------------------------------------------
(* Who was told that a device is enrolled has it on record and, while the  *)
(* tunnel runs, has access; who was struck out has neither.                *)
Kept ==
    /\ book \subseteq Keys /\ acked \subseteq book
    /\ open => acked \subseteq served
    /\ struck \cap (book \cup served) = {}
=============================================================================
