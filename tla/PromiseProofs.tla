---------------------------- MODULE PromiseProofs ----------------------------
(***************************************************************************)
(* What the two abstract specifications imply, for every value of their     *)
(* constants: the terminal swap sends its command at most once, and never   *)
(* for a print that did not complete; a file is sent at most as often as it *)
(* was asked for, and one row or one direct print holds the printer.        *)
(***************************************************************************)
EXTENDS TableSwap, PrintRequest, FiniteSetTheorems, TLAPS

(* A command that left had its intent written down first. *)
SwapInv ==
    /\ claim \in [Runs -> {"open", "intended", "answered", "unknown"}]
    /\ commands \in [Runs -> {0, 1}]
    /\ \A r \in Runs : commands[r] = 1 => claim[r] # "open"
    /\ \A r \in Runs : claim[r] # "open" => r \in completed

(* No command without a completed print. *)
OnlyAfterCompletion == \A r \in Runs : commands[r] > 0 => r \in completed

LEMMA SwapInvHolds == SwapSpec => []SwapInv
<1>1. SwapInit => SwapInv
  BY DEF SwapInit, SwapInv
<1>2. SwapInv /\ [SwapNext]_swapVars => SwapInv'
  <2> SUFFICES ASSUME SwapInv, [SwapNext]_swapVars PROVE SwapInv'
    OBVIOUS
  <2> USE DEF SwapInv
  <2>1. ASSUME NEW r \in Runs, Completes(r) PROVE SwapInv'
    BY <2>1 DEF Completes
  <2>2. ASSUME NEW r \in Runs, Intend(r) PROVE SwapInv'
    BY <2>2 DEF Intend
  <2>3. ASSUME NEW r \in Runs, Send(r) PROVE SwapInv'
    BY <2>3 DEF Send
  <2>4. ASSUME NEW r \in Runs, Answer(r) PROVE SwapInv'
    BY <2>4 DEF Answer
  <2>5. CASE Abandon
    <3>1. PICK lost \in SUBSET {r \in Runs : claim[r] = "intended"} :
              claim' = [r \in Runs |-> IF r \in lost THEN "unknown" ELSE claim[r]]
      BY <2>5 DEF Abandon
    <3> QED BY <2>5, <3>1 DEF Abandon
  <2>6. CASE UNCHANGED swapVars
    BY <2>6 DEF swapVars
  <2> QED BY <2>1, <2>2, <2>3, <2>4, <2>5, <2>6 DEF SwapNext
<1> QED BY <1>1, <1>2, PTL DEF SwapSpec

(* The change_table command of one print leaves the server at most once. *)
THEOREM CommandOnce == SwapSpec => []AtMostOneCommand
<1>1. SwapInv => AtMostOneCommand
  <2> SUFFICES ASSUME SwapInv, NEW r \in Runs PROVE commands[r] <= 1
    BY DEF AtMostOneCommand
  <2>1. commands[r] = 0 \/ commands[r] = 1
    BY DEF SwapInv
  <2> QED BY <2>1
<1> QED BY <1>1, SwapInvHolds, PTL

(* A command is sent only for a print that ended well. *)
THEOREM CommandAfterCompletion == SwapSpec => []OnlyAfterCompletion
<1>1. SwapInv => OnlyAfterCompletion
  <2> SUFFICES ASSUME SwapInv, NEW r \in Runs, commands[r] > 0 PROVE r \in completed
    BY DEF OnlyAfterCompletion
  <2>1. commands[r] = 1
    BY DEF SwapInv
  <2> QED BY <2>1 DEF SwapInv
<1> QED BY <1>1, SwapInvHolds, PTL

-----------------------------------------------------------------------------
(* A request is a ticket.  The row has it while it waits and while it holds *)
(* the printer with nobody to give it to; from the hand-over the attempt    *)
(* has it, and an attempt that has sent keeps it.                          *)

Holders(i) == loaded[i] \cup sent[i]

RowHasIt(i) == row[i] = "waiting" \/ (row[i] = "held" /\ given[i] = None)

Paid(i) == Cardinality(Holders(i)) + (IF RowHasIt(i) THEN 1 ELSE 0) <= asked[i]

RequestTypes ==
    /\ row \in [Rows -> {"waiting", "held", "closed"}]
    /\ given \in [Rows -> Attempts \cup {None}]
    /\ loaded \in [Rows -> SUBSET Attempts]
    /\ sent \in [Rows -> SUBSET Attempts]
    /\ asked \in [Rows -> Nat]
    /\ other \in BOOLEAN

(* What a row's request was handed to has it, and the row still prints.     *)
GivenHasIt == \A i \in Rows : given[i] # None => given[i] \in Holders(i) /\ row[i] = "held"

(* No attempt has sent and may send again. *)
SentOnce == \A i \in Rows : loaded[i] \cap sent[i] = {}

RequestInv ==
    /\ RequestTypes /\ GivenHasIt /\ SentOnce /\ OneHolder
    /\ \A i \in Rows : IsFiniteSet(Holders(i)) /\ Paid(i)

(* A step that makes no request: the attempts get none, and the row gets     *)
(* one back only from an attempt that has lost it.                         *)
LEMMA PaidStays ==
    ASSUME RequestTypes, RequestTypes', NEW i \in Rows, IsFiniteSet(Holders(i)), Paid(i),
           asked'[i] = asked[i], Holders(i)' \subseteq Holders(i),
           RowHasIt(i)' => RowHasIt(i) \/ \E a \in Holders(i) : a \notin Holders(i)'
    PROVE  IsFiniteSet(Holders(i))' /\ Paid(i)'
<1> USE DEF Paid, RequestTypes
<1>1. Cardinality(Holders(i)) \in Nat /\ asked[i] \in Nat
  BY FS_CardinalityType
<1>2. /\ IsFiniteSet(Holders(i)') /\ Cardinality(Holders(i)') \in Nat
      /\ Cardinality(Holders(i)') <= Cardinality(Holders(i))
  BY FS_Subset, FS_CardinalityType
<1>3. CASE RowHasIt(i) \/ ~RowHasIt(i)'
  BY <1>1, <1>2, <1>3
<1>4. CASE ~RowHasIt(i) /\ RowHasIt(i)'
  <2>1. PICK a \in Holders(i) : a \notin Holders(i)'
    BY <1>4
  <2>2. Holders(i)' \subseteq Holders(i) \ {a}
    BY <2>1
  <2>3. IsFiniteSet(Holders(i) \ {a}) /\ Cardinality(Holders(i) \ {a}) = Cardinality(Holders(i)) - 1
    BY <2>1, FS_RemoveElement
  <2>4. Cardinality(Holders(i)') <= Cardinality(Holders(i)) - 1
    BY <2>2, <2>3, FS_Subset
  <2> QED  BY <1>1, <1>2, <1>4, <2>4
<1> QED  BY <1>3, <1>4

(* The hand-over moves the request from the row to the attempt. *)
LEMMA HandOverPaid ==
    ASSUME RequestInv, NEW i \in Rows, NEW a \in Attempts, None \notin Attempts, HandOver(i, a)
    PROVE  \A j \in Rows : IsFiniteSet(Holders(j))' /\ Paid(j)'
<1> SUFFICES ASSUME NEW j \in Rows PROVE IsFiniteSet(Holders(j))' /\ Paid(j)'
  OBVIOUS
<1> USE DEF RequestInv, RequestTypes, HandOver
<1>1. IsFiniteSet(Holders(j)) /\ Paid(j) /\ Cardinality(Holders(j)) \in Nat /\ asked[j] \in Nat
  BY FS_CardinalityType
<1>2. CASE j # i
  BY <1>1, <1>2 DEF Paid, Holders, RowHasIt
<1>3. CASE j = i
  <2>1. Holders(i)' = Holders(i) \cup {a} /\ a \notin Holders(i)
    BY DEF Holders
  <2>2. /\ IsFiniteSet(Holders(i) \cup {a})
        /\ Cardinality(Holders(i) \cup {a}) = Cardinality(Holders(i)) + 1
    BY <1>1, <1>3, <2>1, FS_AddElement
  <2>3. RowHasIt(i) /\ ~RowHasIt(i)' /\ asked' = asked
    BY DEF RowHasIt
  <2> QED  BY <1>1, <1>3, <2>1, <2>2, <2>3 DEF Paid
<1> QED  BY <1>2, <1>3

(* A person who asks pays for it. *)
LEMMA AskPaid ==
    ASSUME RequestInv, NEW i \in Rows, Ask(i)
    PROVE  \A j \in Rows : IsFiniteSet(Holders(j))' /\ Paid(j)'
<1> SUFFICES ASSUME NEW j \in Rows PROVE IsFiniteSet(Holders(j))' /\ Paid(j)'
  OBVIOUS
<1> USE DEF RequestInv, RequestTypes, Ask
<1>1. IsFiniteSet(Holders(j)) /\ Paid(j) /\ Cardinality(Holders(j)) \in Nat /\ asked[j] \in Nat
  BY FS_CardinalityType
<1>2. Holders(j)' = Holders(j)
  BY DEF Holders
<1>3. CASE j # i
  BY <1>1, <1>2, <1>3 DEF Paid, RowHasIt
<1>4. CASE j = i
  <2>1. ~RowHasIt(i) /\ asked'[i] = asked[i] + 1
    BY DEF RowHasIt
  <2> QED  BY <1>1, <1>2, <1>4, <2>1 DEF Paid
<1> QED  BY <1>3, <1>4

(* Every step of PrintRequest but these two makes none. *)
KeepsPaid ==
    \A i \in Rows :
        /\ asked'[i] = asked[i]
        /\ Holders(i)' \subseteq Holders(i)
        /\ RowHasIt(i)' => RowHasIt(i) \/ \E a \in Holders(i) : a \notin Holders(i)'

Facts == RequestTypes /\ GivenHasIt /\ SentOnce /\ OneHolder

(* One lemma per kind of step. *)
LEMMA RowStepKeeps ==
    ASSUME Facts, None \notin Attempts, NEW i \in Rows, Take(i) \/ Requeue(i) \/ Close(i)
    PROVE  Facts' /\ KeepsPaid
<1> USE DEF Facts, RequestTypes, GivenHasIt, SentOnce, OneHolder, KeepsPaid, Holders, RowHasIt
<1>1. CASE Take(i)
  BY <1>1 DEF Take, PrinterIsFree
<1>2. CASE Requeue(i)
  BY <1>2 DEF Requeue
<1>3. CASE Close(i)
  BY <1>3 DEF Close
<1> QED  BY <1>1, <1>2, <1>3

LEMMA AttemptStepKeeps ==
    ASSUME Facts, None \notin Attempts, NEW i \in Rows, NEW a \in Attempts,
           Spend(i, a) \/ HandBack(i, a)
    PROVE  Facts' /\ KeepsPaid
<1> USE DEF Facts, RequestTypes, GivenHasIt, SentOnce, OneHolder, KeepsPaid, Holders, RowHasIt
<1>1. CASE Spend(i, a)
  BY <1>1 DEF Spend
<1>2. CASE HandBack(i, a)
  BY <1>2 DEF HandBack
<1> QED  BY <1>1, <1>2

LEMMA CrashKeeps ==
    ASSUME Facts, None \notin Attempts, Crash
    PROVE  Facts' /\ KeepsPaid
<1> USE DEF Facts, RequestTypes
<1>1. PICK back \in SUBSET {i \in Rows : row[i] = "held" /\ given'[i] = None} :
          row' = [i \in Rows |-> IF i \in back THEN "waiting" ELSE row[i]]
  BY DEF Crash
<1>2. /\ loaded' = [i \in Rows |-> {}] /\ sent' = sent /\ asked' = asked
      /\ given' = [i \in Rows |-> IF given[i] \in sent[i] THEN given[i] ELSE None]
      /\ other' \in {other, FALSE}
  BY DEF Crash
<1>3. RequestTypes' /\ GivenHasIt' /\ SentOnce'
  BY <1>1, <1>2 DEF GivenHasIt, SentOnce, Holders
<1>4. OneHolder'
  BY <1>1, <1>2 DEF OneHolder
<1>5. KeepsPaid
  <2> SUFFICES ASSUME NEW i \in Rows
               PROVE  /\ asked'[i] = asked[i]
                      /\ Holders(i)' \subseteq Holders(i)
                      /\ RowHasIt(i)' => RowHasIt(i) \/ \E a \in Holders(i) : a \notin Holders(i)'
    BY DEF KeepsPaid
  <2>1. Holders(i)' = sent[i]
    BY <1>2 DEF Holders
  <2>2. ASSUME RowHasIt(i)', ~RowHasIt(i) PROVE given[i] \in Holders(i) /\ given[i] \notin sent[i]
    <3>1. row[i] = "held" /\ given[i] # None
      BY <1>1, <1>2, <2>2 DEF RowHasIt
    <3>2. given'[i] = None
      BY <1>1, <2>2, <3>1 DEF RowHasIt
    <3> QED  BY <1>2, <3>1, <3>2 DEF GivenHasIt
  <2> QED  BY <1>2, <2>1, <2>2 DEF Holders
<1> QED  BY <1>3, <1>4, <1>5

(* The hand-over and the request of a person keep the shape too. *)
LEMMA OtherStepKeeps ==
    ASSUME Facts, None \notin Attempts, NEW i \in Rows,
           Ask(i) \/ \E a \in Attempts : HandOver(i, a)
    PROVE  Facts'
<1> USE DEF Facts, RequestTypes, GivenHasIt, SentOnce, OneHolder, Holders
<1>1. CASE Ask(i)
  BY <1>1 DEF Ask
<1>2. ASSUME NEW a \in Attempts, HandOver(i, a) PROVE Facts'
  BY <1>2 DEF HandOver
<1> QED  BY <1>1, <1>2

LEMMA RequestInvHolds == ASSUME None \notin Attempts PROVE RequestSpec => []RequestInv
<1>1. RequestInit => RequestInv
  <2> SUFFICES ASSUME RequestInit PROVE RequestInv
    OBVIOUS
  <2>1. RequestTypes /\ GivenHasIt /\ SentOnce /\ OneHolder
    BY DEF RequestInit, RequestTypes, GivenHasIt, SentOnce, OneHolder
  <2>2. ASSUME NEW i \in Rows PROVE IsFiniteSet(Holders(i)) /\ Paid(i)
    <3>1. Holders(i) = {} /\ asked[i] = 1
      BY DEF RequestInit, Holders
    <3> QED  BY <3>1, FS_EmptySet DEF Paid
  <2> QED  BY <2>1, <2>2 DEF RequestInv
<1>2. RequestInv /\ [RequestNext]_requestVars => RequestInv'
  <2> SUFFICES ASSUME RequestInv, [RequestNext]_requestVars PROVE RequestInv'
    OBVIOUS
  <2>1. Facts
    BY DEF Facts, RequestInv
  <2>2. ASSUME Facts', KeepsPaid PROVE RequestInv'
    BY <2>1, <2>2, PaidStays DEF Facts, KeepsPaid, RequestInv
  <2>3. ASSUME NEW i \in Rows, Take(i) \/ Requeue(i) \/ Close(i) PROVE RequestInv'
    BY <2>1, <2>2, <2>3, RowStepKeeps
  <2>4. ASSUME NEW i \in Rows, NEW a \in Attempts, Spend(i, a) \/ HandBack(i, a) PROVE RequestInv'
    BY <2>1, <2>2, <2>4, AttemptStepKeeps
  <2>5. CASE Crash
    BY <2>1, <2>2, <2>5, CrashKeeps
  <2>6. ASSUME NEW i \in Rows, Ask(i) PROVE RequestInv'
    BY <2>1, <2>6, OtherStepKeeps, AskPaid DEF Facts, RequestInv
  <2>7. ASSUME NEW i \in Rows, NEW a \in Attempts, HandOver(i, a) PROVE RequestInv'
    BY <2>1, <2>7, OtherStepKeeps, HandOverPaid DEF Facts, RequestInv
  <2>8. CASE Lend \/ Return \/ UNCHANGED requestVars
    <3>1. UNCHANGED <<row, given, loaded, sent, asked>>
      BY <2>8 DEF Lend, Return, requestVars
    <3>2. other' \in BOOLEAN /\ OneHolder'
      <4>1. CASE Lend
        BY <3>1, <4>1 DEF Lend, PrinterIsFree, OneHolder
      <4>2. CASE Return
        BY <2>1, <3>1, <4>2 DEF Return, Facts, OneHolder
      <4>3. CASE UNCHANGED requestVars
        BY <2>1, <4>3 DEF requestVars, Facts, RequestTypes, OneHolder
      <4> QED  BY <2>8, <4>1, <4>2, <4>3
    <3>4. Facts'
      BY <2>1, <3>1, <3>2 DEF Facts, RequestTypes, GivenHasIt, SentOnce, Holders
    <3>3. KeepsPaid
      BY <3>1 DEF KeepsPaid, Holders, RowHasIt
    <3> QED  BY <2>2, <3>3, <3>4
  <2> QED  BY <2>3, <2>4, <2>5, <2>6, <2>7, <2>8 DEF RequestNext
<1> QED  BY <1>1, <1>2, PTL DEF RequestSpec

(* No file is sent more often than a person asked for it, whatever crashes,  *)
(* stops and late ends of attempts happen in between.                       *)
THEOREM SendsArePaid == ASSUME None \notin Attempts PROVE RequestSpec => []SentWithinAsked
<1>1. RequestInv => SentWithinAsked
  <2> SUFFICES ASSUME RequestInv, NEW i \in Rows PROVE Cardinality(sent[i]) <= asked[i]
    BY DEF SentWithinAsked
  <2>1. IsFiniteSet(Holders(i)) /\ Paid(i) /\ asked[i] \in Nat
    BY DEF RequestInv, RequestTypes
  <2>2. sent[i] \subseteq Holders(i)
    BY DEF Holders
  <2>3. IsFiniteSet(sent[i]) /\ Cardinality(sent[i]) <= Cardinality(Holders(i))
    BY <2>1, <2>2, FS_Subset
  <2>4. Cardinality(sent[i]) \in Nat /\ Cardinality(Holders(i)) \in Nat
    BY <2>1, <2>3, FS_CardinalityType
  <2>5. Cardinality(Holders(i)) <= asked[i]
    BY <2>1, <2>4 DEF Paid, RowHasIt
  <2> QED  BY <2>1, <2>3, <2>4, <2>5
<1> QED  BY <1>1, RequestInvHolds, PTL

(* Nobody holds a printer that another row or a direct print holds. *)
THEOREM HoldersAreAlone == ASSUME None \notin Attempts PROVE RequestSpec => []OneHolder
<1>1. RequestInv => OneHolder
  BY DEF RequestInv
<1> QED  BY <1>1, RequestInvHolds, PTL
=============================================================================
