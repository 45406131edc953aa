------------------------------ MODULE TraceLog -------------------------------
(***************************************************************************)
(* Spans and their bill.  A span is posted by appending a line to its      *)
(* trace's file, a trace is finalised by appending a summary to the index, *)
(* and what a tenant is charged is the sum over the index.  writeln! makes *)
(* two writes, the text and the newline: appends that overlap, or one      *)
(* after a crash in between, join their lines, and a joined line does not  *)
(* parse.  Of a span only its trace and the tokens it reports are kept;    *)
(* money, names, times and the tree of spans are left out, and a read of   *)
(* the index is not cut at 10,000 summaries.                               *)
(***************************************************************************)
EXTENDS Naturals, FiniteSets, Sequences, SequencesExt

CONSTANTS Traces, Spans, TraceOf, Tokens, Tasks, MaxOps, MaxCrashes

VARIABLES
  trace,     \* the file of each trace
  index,     \* _index.jsonl
  poster,    \* what each task is appending
  reported,  \* history: the tokens of the last post of each span
  finals,    \* history: how often each trace was summed up
  ops, uncrashed,  \* bounds: requests so far, crashes left
  joined,    \* history: a line was appended to one without its newline
  late       \* history: traces with a span posted after they were summed up

tvars == <<trace, index, poster, reported, finals, ops, uncrashed, joined, late>>

NewFile == [lines |-> <<>>, ended |-> TRUE]
Still == [pc |-> "idle", trace |-> {}, text |-> <<>>]

TInit ==
  /\ trace = [t \in Traces |-> NewFile] /\ index = NewFile
  /\ poster = [k \in Tasks |-> Still]
  /\ reported = [s \in Spans |-> 0] /\ finals = [t \in Traces |-> 0]
  /\ ops = 0 /\ uncrashed = MaxCrashes
  /\ joined = FALSE /\ late = {}

AddText(f, text) ==
  [lines |-> IF f.ended THEN Append(f.lines, <<text>>)
             ELSE ReplaceAt(f.lines, Len(f.lines), Append(Last(f.lines), text)),
   ended |-> FALSE]

(* The lines that can be parsed: nothing was joined to them.               *)
Alone(f) == {i \in DOMAIN f.lines : Len(f.lines[i]) = 1}

(* The sum of a function's numbers: how many pairs of an argument and a    *)
(* number up to its value there are.                                       *)
Total(n) == Cardinality(UNION {{x} \X (1..n[x]) : x \in DOMAIN n})

(* Mutant of Summed: every line counts, the spans' updates too.            *)
Summed_Lines(f) == Total([i \in Alone(f) |-> f.lines[i][1][2]])

(* load_trace and the sum of finalize_trace: the last line of each span.   *)
Summed(f) ==
  LET last == {i \in Alone(f) :
                 \A j \in Alone(f) : f.lines[j][1][1] = f.lines[i][1][1] => j <= i}
  IN  Total([i \in last |-> f.lines[i][1][2]])

(* tenant_token_stats: the tokens of each summary are halved, rounding     *)
(* down, into an input and an output share.                                *)
Charged == Total([i \in Alone(index) |-> 2 * (index.lines[i][1][2] \div 2)])

-----------------------------------------------------------------------------
(* append_span, upsert_span: the first of the two writes.                  *)
Post(k, s, n) ==
  /\ poster[k].pc = "idle" /\ ops < MaxOps
  /\ ops' = ops + 1
  /\ LET t == TraceOf[s] IN
       /\ trace' = [trace EXCEPT ![t] = AddText(@, <<s, n>>)]
       /\ joined' = (joined \/ ~trace[t].ended)
       /\ late' = IF finals[t] > 0 THEN late \cup {t} ELSE late
       /\ poster' = [poster EXCEPT ![k] = [Still EXCEPT !.pc = "newline", !.trace = {t}]]
  /\ reported' = [reported EXCEPT ![s] = n]
  /\ UNCHANGED <<index, finals, uncrashed>>

(* finalize_trace reads the trace ...                                      *)
Finalize(k, t) ==
  /\ poster[k].pc = "idle" /\ ops < MaxOps
  /\ ops' = ops + 1
  /\ poster' = [poster EXCEPT ![k] = [Still EXCEPT !.pc = "text", !.text = <<t, Summed(trace[t])>>]]
  /\ finals' = [finals EXCEPT ![t] = @ + 1]
  /\ UNCHANGED <<trace, index, reported, uncrashed, joined, late>>

(* ... and appends a summary to the index, whether or not it has one of    *)
(* this trace.                                                             *)
AppendSummary(k) ==
  /\ poster[k].pc = "text"
  /\ index' = AddText(index, poster[k].text)
  /\ joined' = (joined \/ ~index.ended)
  /\ poster' = [poster EXCEPT ![k] = [Still EXCEPT !.pc = "newline"]]
  /\ UNCHANGED <<trace, reported, finals, ops, uncrashed, late>>

Newline(k) ==
  /\ poster[k].pc = "newline"
  /\ LET ts == poster[k].trace IN
       /\ trace' = [t \in Traces |-> IF t \in ts THEN [trace[t] EXCEPT !.ended = TRUE] ELSE trace[t]]
       /\ index' = IF ts = {} THEN [index EXCEPT !.ended = TRUE] ELSE index
  /\ poster' = [poster EXCEPT ![k] = Still]
  /\ UNCHANGED <<reported, finals, ops, uncrashed, joined, late>>

(* The node is killed.  A summary that was not written counts as not made. *)
TCrash ==
  /\ uncrashed > 0
  /\ uncrashed' = uncrashed - 1
  /\ finals' = [t \in Traces |-> finals[t] -
       Cardinality({k \in Tasks : poster[k].pc = "text" /\ poster[k].text[1] = t})]
  /\ poster' = [k \in Tasks |-> Still]
  /\ UNCHANGED <<trace, index, reported, ops, joined, late>>

TNext ==
  \/ \E k \in Tasks, s \in Spans, n \in Tokens : Post(k, s, n)
  \/ \E k \in Tasks, t \in Traces : Finalize(k, t)
  \/ \E k \in Tasks : AppendSummary(k) \/ Newline(k)
  \/ TCrash

TSpec == TInit /\ [][TNext]_tvars

-----------------------------------------------------------------------------
TTypeOK ==
  /\ \A t \in Traces : \A l \in Range(trace[t].lines) :
       \A i \in DOMAIN l : TraceOf[l[i][1]] = t /\ l[i][2] \in Tokens
  /\ \A l \in Range(index.lines) : \A i \in DOMAIN l : l[i][1] \in Traces /\ l[i][2] \in Nat
  /\ reported \in [Spans -> Tokens \cup {0}] /\ finals \in [Traces -> Nat]
  /\ ops \in 0..MaxOps /\ uncrashed \in 0..MaxCrashes
  /\ joined \in BOOLEAN /\ late \subseteq Traces

(* The bill.  Where no two appends were joined and no span came after the  *)
(* summary, a tenant is charged, once for each time a trace was finalised, *)
(* the tokens its spans last reported, less at most one: however the posts *)
(* of the spans' updates were interleaved with anything else.              *)
TokensBilled ==
  ~joined /\ late = {} /\ (\A k \in Tasks : poster[k].pc # "text") =>
    LET total(t) == Total([s \in {s \in Spans : TraceOf[s] = t} |-> reported[s]])
        due == Total([t \in Traces |-> finals[t] * total(t)])
        times == Total(finals)
    IN  due - times <= Charged /\ Charged <= due
=============================================================================
