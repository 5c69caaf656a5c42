---------------------------- MODULE CanonicalTrace ----------------------------
(***************************************************************************)
(* A session trace in its canonical form (src/src/schema/format/           *)
(* text_generation/session.rs): the rows of the file, what validate() asks *)
(* of them, what is written and read back, and what a dry run says of the  *)
(* sessions (src/src/workload.rs).                                         *)
(*                                                                         *)
(* Instants count thirds of the last decimal that a file keeps, so that    *)
(* rounding has no ties.  The columns of a tag are known by its name.      *)
(***************************************************************************)
EXTENDS Integers, Sequences, FiniteSets
LOCAL INSTANCE SequencesExt
LOCAL INSTANCE FiniteSetsExt

\* request_id: no two rounds share one.
RequestId(session, idx) == <<session, idx>>

\* ExecutionRow, where a wait or an arrival may have been read as anything.
ExecutionRow ==
  [request : STRING \X Nat, session : STRING, idx : Nat, arrival : Int, prefix : Nat,
   input : Nat, output : Nat, wait : Int]

Row(session, idx, arrival, prefix, input, output, wait) ==
  [request |-> RequestId(session, idx), session |-> session, idx |-> idx,
   arrival |-> arrival, prefix |-> prefix, input |-> input, output |-> output,
   wait |-> wait]

StartsBlock(rows, i) == i = 1 \/ rows[i].session # rows[i - 1].session

\* One turn of the loop of validate.
RowFits(rows, i) ==
  LET row == rows[i] IN
  /\ row.session # ""
  /\ \A j \in 1 .. i - 1 : rows[j].request # row.request
  /\ row.arrival >= 0 /\ row.wait >= 0
  /\ row.output > 0 /\ row.prefix + row.input > 0
  /\ row.request = RequestId(row.session, row.idx)
  /\ StartsBlock(rows, i) =>
       /\ \A j \in 1 .. i - 1 : rows[j].session # row.session
       /\ i > 1 => rows[i - 1].arrival <= row.arrival
       /\ row.idx = 0 /\ row.prefix = 0
  /\ ~StartsBlock(rows, i) =>
       row.idx = rows[i - 1].idx + 1 /\ row.arrival = rows[i - 1].arrival

\* validate.
Valid(rows) ==
  rows # <<>> /\ rows[1].arrival = 0 /\ \A i \in DOMAIN rows : RowFits(rows, i)

\* format_milliseconds: to the nearest instant that can be written.
Spelled(t) == ((t + 1) \div 3) * 3

\* write_csv, and what is read back.
Written(rows) ==
  [i \in DOMAIN rows |-> [rows[i] EXCEPT !.arrival = Spelled(@), !.wait = Spelled(@)]]

\* plan: the causal link of every round.
Plan(rows) ==
  [i \in DOMAIN rows |->
     [row |-> rows[i],
      predecessor |-> IF rows[i].idx = 0 THEN {}
                      ELSE {RequestId(rows[i].session, rows[i].idx - 1)}]]

\* The columns that every file has, as one.
COLUMNS == {"session-execution-v2"}

\* InputFileSchema::new for this format, and verify_header: the columns are the
\* expected ones in any order, or the file is refused.
DeclarationOK(tags) == IsInjective(tags) /\ "session" \notin ToSet(tags)
HeaderFits(columns, tags) == columns = COLUMNS \cup ToSet(tags)

\* validate of the four tags.  priority takes any number.
TagFits(tag, value) ==
  CASE tag = "session"     -> /\ value.session_id = "" =>
                                   value.prefix_kv = 0 /\ value.tool_wait = 0
                              /\ value.tool_wait >= 0
    [] tag = "slo"         -> \A metric \in DOMAIN value : \A bound \in value[metric] : bound > 0
    [] tag = "priority"    -> TRUE
    [] tag = "speculative" -> \A rate \in value.accept_rate : rate \in 0 .. 100

\* load, up to the rows: values holds those of the declared tags, row by row.
Loads(columns, tags, rows, values) ==
  /\ DeclarationOK(tags) /\ HeaderFits(columns, tags)
  /\ \A i \in DOMAIN rows : \A tag \in ToSet(tags) : TagFits(tag, values[i][tag])
  /\ Valid(rows)

\* load: rows become sessions, in the order of the file.
Blocks(rows) ==
  LET starts == SetToSortSeq({i \in DOMAIN rows : StartsBlock(rows, i)}, LAMBDA i, j : i < j)
      end(k) == IF k = Len(starts) THEN Len(rows) ELSE starts[k + 1] - 1
  IN  [k \in DOMAIN starts |-> SubSeq(rows, starts[k], end(k))]

-----------------------------------------------------------------------------

\* reaches_context_limit.
Reaches(prompt_len, output_len, limit) == prompt_len + output_len >= limit

\* SessionWorkloadSummary::from_sessions.  limit is a set of at most one.
Summarize(sessions, limit) ==
  LET rows == FlattenSeq(sessions)
      top(lengths) == Max(lengths \cup {0})
      over == {i \in DOMAIN rows : \E l \in limit :
                 Reaches(rows[i].prefix + rows[i].input, rows[i].output, l)}
  IN  [sessions   |-> Len(sessions),
       rounds     |-> Len(rows),
       overflow   |-> {rows[i].idx : i \in {i \in over : \A j \in over : i <= j}},
       max_prompt |-> top({rows[i].prefix + rows[i].input : i \in DOMAIN rows}),
       max_prefix |-> top({rows[i].prefix : i \in DOMAIN rows}),
       max_input  |-> top({rows[i].input : i \in DOMAIN rows}),
       max_output |-> top({rows[i].output : i \in DOMAIN rows}),
       output     |-> MapThenSumSet(LAMBDA i : rows[i].output, DOMAIN rows)]

===============================================================================
