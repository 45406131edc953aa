----------------------------- MODULE MessageBus -----------------------------
(***************************************************************************)
(* One topic of the message bus: a log, messages.jsonl, to which every     *)
(* publisher appends, and meta.json with the last sequence number given    *)
(* out.  A publisher reads the meta file, appends its message, and writes  *)
(* the meta file back, with no lock; clearing the topic removes both files *)
(* and the directory one after the other.  writeln! on an unbuffered file  *)
(* is two writes, the text and the newline, between which another          *)
(* publisher may append or the node may die.  A write of the text is whole *)
(* or nothing.  save_meta ignores both of its errors.                      *)
(*                                                                         *)
(* Consumers are agents outside the node: they poll with the highest       *)
(* sequence number they have been given.  compact_topic is not modelled:   *)
(* nothing in the program calls it.                                        *)
(***************************************************************************)
EXTENDS Naturals, FiniteSets, Sequences

CONSTANTS
  Messages,    \* what may be published, each once
  Mortal,      \* those published with a ttl
  NoMessage,
  Publishers,  \* request tasks that publish
  Consumers,
  Limit,       \* the limit of a poll
  MaxClears, MaxFaults   \* bounds of the model: clears; crashes and failed writes

ASSUME BusAssumption ==
  /\ IsFiniteSet(Messages) /\ Mortal \subseteq Messages /\ NoMessage \notin Messages
  /\ Limit \in Nat \ {0}
  /\ {MaxClears, MaxFaults} \subseteq Nat

VARIABLES
  dir,       \* whether the topic's directory exists
  log,       \* the lines of messages.jsonl, each the messages written on it; the
             \* last is not terminated.  <<>>: there is no file
  meta,      \* last_seq as load_meta reads it: 0 for no file or an unreadable one
  pub,       \* local state of every publisher
  clearing,  \* what a clear in progress still has to remove
  since,     \* the cursor of each consumer
  received,  \* history: what each consumer was given
  expired,   \* messages whose ttl is over
  sent,      \* history: messages whose publication has begun,
  acked,     \* ... and those answered with 201
  raced,     \* history: two publications overlapped
  cut,       \* history: crashes that caught a publication, newlines that failed
  unsaved,   \* history: a number was given out and the meta file not written
  clears, faults

files == <<dir, log, meta>>
readers == <<since, received>>
mishaps == <<unsaved, clears, faults>>
vars == <<files, pub, clearing, readers, expired, sent, acked, raced, cut, mishaps>>

Entry == [id: Messages, seq: 1..Cardinality(Messages)]
Stage == {"idle", "append", "newline", "save"}
IdlePub == [pc |-> "idle", id |-> NoMessage, seq |-> 0, open |-> FALSE]

Busy(k) == pub[k].pc # "idle"
Stored(k) == [id |-> pub[k].id, seq |-> pub[k].seq]

(* What load_meta may return: a meta file being rewritten is unreadable.   *)
LoadedMeta(k) ==
  {meta} \cup (IF \E m \in Publishers \ {k} : pub[m].pc = "save" THEN {0} ELSE {})

(* The lines that parse: those that hold exactly one message.              *)
Parsed == {i \in DOMAIN log : Len(log[i]) = 1}
On(i) == log[i][1]

(* take(n), of lines.                                                      *)
First(n, lines) == {i \in lines : Cardinality({j \in lines : j <= i}) <= n}

(* What a consumer has still to be given, from its cursor on.              *)
Ahead(c) == {i \in Parsed : On(i).seq > since[c] /\ On(i).id \notin expired}

(* Mutant of Fresh: filters after it has taken its share of the lines.     *)
Fresh_TakeFirst(c) == First(Limit, Parsed) \cap Ahead(c)

(* poll: the first messages after the cursor that have not expired.        *)
Fresh(c) == First(Limit, Ahead(c))

-----------------------------------------------------------------------------
Init ==
  /\ dir = FALSE /\ log = <<>> /\ meta = 0
  /\ pub = [k \in Publishers |-> IdlePub]
  /\ clearing = {}
  /\ since = [c \in Consumers |-> 0]
  /\ received = [c \in Consumers |-> {}]
  /\ expired = {} /\ sent = {} /\ acked = {}
  /\ raced = FALSE /\ cut = 0 /\ unsaved = FALSE
  /\ clears = 0 /\ faults = 0

(* Mutant of Publish: the number is taken before it is incremented.        *)
Publish_Unincremented(k, m) ==
  /\ ~Busy(k)
  /\ m \notin sent
  /\ sent' = sent \cup {m}
  /\ dir' = TRUE
  /\ \E last \in LoadedMeta(k) :
       pub' = [pub EXCEPT ![k] = [pc |-> "append", id |-> m, seq |-> last, open |-> FALSE]]
  /\ raced' = (raced \/ \E j \in Publishers : Busy(j))
  /\ UNCHANGED <<log, meta, clearing, readers, expired, acked, cut, mishaps>>

(* The head of publish: create the directory, load the meta file, take the *)
(* next number.                                                            *)
Publish(k, m) ==
  /\ ~Busy(k)
  /\ m \notin sent
  /\ sent' = sent \cup {m}
  /\ dir' = TRUE
  /\ \E last \in LoadedMeta(k) :
       pub' = [pub EXCEPT ![k] = [pc |-> "append", id |-> m, seq |-> last + 1, open |-> FALSE]]
  /\ raced' = (raced \/ \E j \in Publishers : Busy(j))
  /\ UNCHANGED <<log, meta, clearing, readers, expired, acked, cut, mishaps>>

(* Open the log (created if need be) and write the message's text at its   *)
(* end.  If the directory was removed, publish fails here.                 *)
WriteText(k) ==
  /\ pub[k].pc = "append"
  /\ IF dir
     THEN /\ log' = IF log = <<>> THEN <<<<Stored(k)>>>>
                    ELSE [log EXCEPT ![Len(log)] = Append(@, Stored(k))]
          /\ pub' = [pub EXCEPT ![k].pc = "newline", ![k].open = TRUE]
     ELSE /\ pub' = [pub EXCEPT ![k] = IdlePub]
          /\ UNCHANGED log
  /\ UNCHANGED <<dir, meta, clearing, readers, expired, sent, acked, raced, cut, mishaps>>

(* Mutant of Newline: write! in place of writeln!.                         *)
Newline_Missing(k) ==
  /\ pub[k].pc = "newline"
  /\ pub' = [pub EXCEPT ![k].pc = "save"]
  /\ UNCHANGED <<files, clearing, readers, expired, sent, acked, raced, cut, mishaps>>

(* ... and the newline, into the file that was opened: if it was removed   *)
(* meanwhile, nobody will see it.                                          *)
Newline(k) ==
  /\ pub[k].pc = "newline"
  /\ log' = IF pub[k].open THEN Append(log, <<>>) ELSE log
  /\ pub' = [pub EXCEPT ![k].pc = "save"]
  /\ UNCHANGED <<dir, meta, clearing, readers, expired, sent, acked, raced, cut, mishaps>>

(* The text cannot be appended, or the newline after it: publish answers   *)
(* with an error.                                                          *)
AppendFails(k) ==
  /\ pub[k].pc \in {"append", "newline"}
  /\ faults < MaxFaults
  /\ faults' = faults + 1
  /\ cut' = IF pub[k].pc = "newline" THEN cut + 1 ELSE cut
  /\ pub' = [pub EXCEPT ![k] = IdlePub]
  /\ UNCHANGED <<files, clearing, readers, expired, sent, acked, raced, unsaved, clears>>

(* Mutant of SaveMeta: the number before this one is saved.                *)
SaveMeta_Previous(k) ==
  /\ pub[k].pc = "save"
  /\ dir' = TRUE
  /\ meta' = pub[k].seq - 1
  /\ acked' = acked \cup {pub[k].id}
  /\ pub' = [pub EXCEPT ![k] = IdlePub]
  /\ UNCHANGED <<log, clearing, readers, expired, sent, raced, cut, mishaps>>

(* save_meta, which creates the directory again if it has to; publish      *)
(* returns the message.                                                    *)
SaveMeta(k) ==
  /\ pub[k].pc = "save"
  /\ dir' = TRUE
  /\ meta' = pub[k].seq
  /\ acked' = acked \cup {pub[k].id}
  /\ pub' = [pub EXCEPT ![k] = IdlePub]
  /\ UNCHANGED <<log, clearing, readers, expired, sent, raced, cut, mishaps>>

(* Either call of save_meta fails, and the meta file stays as it was or is *)
(* left empty; publish returns the message all the same.                   *)
SaveMetaFails(k) ==
  /\ pub[k].pc = "save"
  /\ faults < MaxFaults
  /\ faults' = faults + 1
  /\ unsaved' = TRUE
  /\ dir' \in {dir, TRUE}
  /\ meta' \in {meta, 0}
  /\ acked' = acked \cup {pub[k].id}
  /\ pub' = [pub EXCEPT ![k] = IdlePub]
  /\ UNCHANGED <<log, clearing, readers, expired, sent, raced, cut, clears>>

(* handle_messages_clear: remove_dir_all.                                  *)
Clear ==
  /\ clearing = {}
  /\ clears < MaxClears
  /\ clears' = clears + 1
  /\ dir
  /\ clearing' = {"log", "meta", "dir"}
  /\ UNCHANGED <<files, pub, readers, expired, sent, acked, raced, cut, unsaved, faults>>

(* The files go in the order the directory lists them.                     *)
RemoveLog ==
  /\ "log" \in clearing
  /\ clearing' = clearing \ {"log"}
  /\ log' = <<>>
  /\ pub' = [k \in Publishers |-> [pub[k] EXCEPT !.open = FALSE]]
  /\ UNCHANGED <<dir, meta, readers, expired, sent, acked, raced, cut, mishaps>>

RemoveMeta ==
  /\ "meta" \in clearing
  /\ clearing' = clearing \ {"meta"}
  /\ meta' = 0
  /\ UNCHANGED <<dir, log, pub, readers, expired, sent, acked, raced, cut, mishaps>>

(* The directory last; a file created meanwhile makes this fail.           *)
RemoveDir ==
  /\ clearing = {"dir"}
  /\ clearing' = {}
  /\ dir' = (log # <<>> \/ meta # 0)
  /\ UNCHANGED <<log, meta, pub, readers, expired, sent, acked, raced, cut, mishaps>>

-----------------------------------------------------------------------------
(* GET /messages/{topic}?since=..: the consumer goes on from the highest   *)
(* number it was given.                                                    *)
Poll(c) ==
  LET given == {On(i) : i \in Fresh(c)}
  IN  /\ given # {}
      /\ received' = [received EXCEPT ![c] = @ \cup {e.id : e \in given}]
      /\ since' = [since EXCEPT ![c] = CHOOSE n \in {e.seq : e \in given} :
                                         \A e \in given : e.seq <= n]
      /\ UNCHANGED <<files, pub, clearing, expired, sent, acked, raced, cut, mishaps>>

(* BusMessage::is_expired.                                                 *)
Expire(m) ==
  /\ m \in (Mortal \cap sent) \ expired
  /\ expired' = expired \cup {m}
  /\ UNCHANGED <<files, pub, clearing, readers, sent, acked, raced, cut, mishaps>>

(* The node dies and comes back; its requests are gone, the files stay as  *)
(* they are, a meta file that was being written unreadable.                *)
Crash ==
  /\ faults < MaxFaults
  /\ faults' = faults + 1
  /\ cut' = IF \E k \in Publishers : Busy(k) THEN cut + 1 ELSE cut
  /\ meta' \in {meta} \cup {0 : k \in {j \in Publishers : pub[j].pc = "save"}}
  /\ pub' = [k \in Publishers |-> IdlePub]
  /\ clearing' = {}
  /\ UNCHANGED <<dir, log, readers, expired, sent, acked, raced, unsaved, clears>>

(* Messages that agree on having a ttl are alike: any fixed one of each    *)
(* kind may be the next.                                                   *)
Unsent == {CHOOSE m \in kind \ sent : TRUE :
             kind \in {S \in {Mortal, Messages \ Mortal} : ~(S \subseteq sent)}}

Next ==
  \/ \E k \in Publishers, m \in Unsent : Publish(k, m)
  \/ \E k \in Publishers : WriteText(k) \/ Newline(k) \/ SaveMeta(k)
                           \/ AppendFails(k) \/ SaveMetaFails(k)
  \/ Clear \/ RemoveLog \/ RemoveMeta \/ RemoveDir
  \/ \E c \in Consumers : Poll(c)
  \/ \E m \in Messages : Expire(m)
  \/ Crash

(* Consumers keep polling; nothing else has to happen.                     *)
Spec == Init /\ [][Next]_vars /\ \A c \in Consumers : WF_vars(Poll(c))

-----------------------------------------------------------------------------
(* Type invariant; the sequence numbers written start at 1.                *)
TypeOK ==
  /\ dir \in BOOLEAN
  /\ log \in Seq(Seq(Entry))
  /\ meta \in 0..Cardinality(Messages)
  /\ pub \in [Publishers -> [pc: Stage, id: Messages \cup {NoMessage},
                             seq: 0..Cardinality(Messages), open: BOOLEAN]]
  /\ clearing \subseteq {"log", "meta", "dir"}
  /\ since \in [Consumers -> 0..Cardinality(Messages)]
  /\ received \in [Consumers -> SUBSET Messages]
  /\ expired \subseteq sent /\ acked \subseteq sent /\ sent \subseteq Messages
  /\ raced \in BOOLEAN /\ unsaved \in BOOLEAN /\ cut \in 0..faults
  /\ clears \in 0..MaxClears /\ faults \in 0..MaxFaults

Readable == {On(i).id : i \in Parsed}
Disturbed == raced \/ unsaved \/ clears > 0 \/ cut > 0

(* A consumer that goes by its cursor misses nothing: an acknowledged      *)
(* message was given to it, expired, or is still ahead of it, until        *)
(* publications overlap, the topic is cleared, a crash or a failed newline *)
(* cuts a publication short, or the meta file was not saved: publish       *)
(* acknowledges even so, the next message gets the same number, and a      *)
(* consumer that has polled in between skips it (publish, save_meta, poll).*)
NothingSkipped ==
  ~Disturbed => \A c \in Consumers : \A m \in acked \ (received[c] \cup expired) :
    \E i \in Parsed : On(i).id = m /\ On(i).seq > since[c]

(* A crash or a failed write does not spread: whatever is cut short, at    *)
(* most one acknowledged message for each becomes unreadable, the one      *)
(* whose line the half-written message spoils.                             *)
DamageBound ==
  ~raced /\ clears = 0 => Cardinality(acked \ Readable) <= cut

(* A consumer that keeps polling is eventually given every acknowledged    *)
(* message that does not expire first, whatever the limit of a poll.       *)
Delivered ==
  \A c \in Consumers, m \in Messages :
    (m \in acked) ~> (m \in received[c] \/ m \in expired \/ Disturbed)
=============================================================================
