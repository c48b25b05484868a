----------------------------- MODULE PrintRequest -----------------------------
(***************************************************************************)
(* What one printer's queue promises about the requests to print its rows,  *)
(* whatever the scheduler, the jobs, the operator and a crash do in between. *)
(*                                                                         *)
(* A request is with its row while the row waits and while it holds the     *)
(* printer.  The row hands it to one attempt, which may from then on send    *)
(* the file without asking again.  The attempt sends, or the request comes   *)
(* back; a row whose attempt has sent is never given back to the queue.      *)
(* Only a person makes a request, and the printer has one holder.           *)
(***************************************************************************)
EXTENDS Naturals, FiniteSets

CONSTANTS Rows, Attempts, None

VARIABLES
    row,      \* of each row: "waiting", "held" (it holds the printer) or "closed"
    given,    \* of each row that holds the printer: the attempt its request was handed to
    loaded,   \* of each row: the attempts that may still send
    sent,     \* of each row: the attempts that have sent
    asked,    \* of each row: how many times a person asked for it
    other     \* does somebody else hold the printer?

requestVars == <<row, given, loaded, sent, asked, other>>

RequestInit ==
    /\ row = [i \in Rows |-> "waiting"]
    /\ given = [i \in Rows |-> None]
    /\ loaded = [i \in Rows |-> {}]
    /\ sent = [i \in Rows |-> {}]
    /\ asked = [i \in Rows |-> 1]
    /\ other = FALSE

PrinterIsFree == ~other /\ \A i \in Rows : row[i] # "held"

Ask(i) ==
    /\ row[i] = "closed"
    /\ row' = [row EXCEPT ![i] = "waiting"]
    /\ asked' = [asked EXCEPT ![i] = @ + 1]
    /\ UNCHANGED <<given, loaded, sent, other>>

Take(i) ==
    /\ row[i] = "waiting" /\ PrinterIsFree
    /\ row' = [row EXCEPT ![i] = "held"]
    /\ UNCHANGED <<given, loaded, sent, asked, other>>

HandOver(i, a) ==
    /\ row[i] = "held" /\ given[i] = None
    /\ \A j \in Rows : a \notin loaded[j] \cup sent[j]
    /\ given' = [given EXCEPT ![i] = a]
    /\ loaded' = [loaded EXCEPT ![i] = @ \cup {a}]
    /\ UNCHANGED <<row, sent, asked, other>>

Spend(i, a) ==
    /\ a \in loaded[i]
    /\ loaded' = [loaded EXCEPT ![i] = @ \ {a}]
    /\ sent' = [sent EXCEPT ![i] = @ \cup {a}]
    /\ UNCHANGED <<row, given, asked, other>>

(* An attempt that ends unsent leaves the request to the row it still holds. *)
HandBack(i, a) ==
    /\ a \in loaded[i]
    /\ loaded' = [loaded EXCEPT ![i] = @ \ {a}]
    /\ given' = [given EXCEPT ![i] = IF @ = a THEN None ELSE @]
    /\ UNCHANGED <<row, sent, asked, other>>

Requeue(i) ==
    /\ row[i] = "held" /\ given[i] = None
    /\ row' = [row EXCEPT ![i] = "waiting"]
    /\ UNCHANGED <<given, loaded, sent, asked, other>>

Close(i) ==
    /\ row[i] # "closed"
    /\ row' = [row EXCEPT ![i] = "closed"]
    /\ given' = [given EXCEPT ![i] = None]
    /\ UNCHANGED <<loaded, sent, asked, other>>

Lend ==
    /\ PrinterIsFree
    /\ other' = TRUE
    /\ UNCHANGED <<row, given, loaded, sent, asked>>

Return ==
    /\ other
    /\ other' = FALSE
    /\ UNCHANGED <<row, given, loaded, sent, asked>>

(* The server dies: no attempt is left, and a row whose attempt had not sent *)
(* may go back to the queue.                                               *)
Crash ==
    /\ loaded' = [i \in Rows |-> {}]
    /\ given' = [i \in Rows |-> IF given[i] \in sent[i] THEN given[i] ELSE None]
    /\ \E back \in SUBSET {i \in Rows : row[i] = "held" /\ given'[i] = None} :
          row' = [i \in Rows |-> IF i \in back THEN "waiting" ELSE row[i]]
    /\ other' \in {other, FALSE}
    /\ UNCHANGED <<sent, asked>>

(* The first disjunct is the stuttering of RequestSpec, written out because  *)
(* TLC then recognises at once the many steps no request notices.           *)
RequestNext ==
    \/ UNCHANGED requestVars
    \/ \E i \in Rows : Ask(i) \/ Take(i) \/ Requeue(i) \/ Close(i)
    \/ \E i \in Rows, a \in Attempts : HandOver(i, a) \/ Spend(i, a) \/ HandBack(i, a)
    \/ Lend \/ Return \/ Crash

RequestSpec == RequestInit /\ [][RequestNext]_requestVars

(* The consequences a farm cares about: no file is sent more often than it   *)
(* was asked for, and nobody holds a printer that another one holds.        *)
SentWithinAsked == \A i \in Rows : Cardinality(sent[i]) <= asked[i]

OneHolder ==
    \A i \in Rows : row[i] = "held" => ~other /\ \A j \in Rows : row[j] = "held" => i = j
=============================================================================
