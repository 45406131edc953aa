-------------------------- MODULE MessageBusProofs --------------------------
(***************************************************************************)
(* Proofs about MessageBus, for every set of messages, publishers and      *)
(* consumers and every limit of a poll: types, how many acknowledged       *)
(* messages a crash can spoil, and that a cursor skips none of them.       *)
(***************************************************************************)
EXTENDS MessageBus, FiniteSetTheorems, SequenceTheorems, TLAPS

-----------------------------------------------------------------------------
(* No number is larger than there are messages sent, and a publication     *)
(* under way is of a message, with a number from 1.                        *)
Sent == Cardinality(sent)

NumbersFit ==
  /\ meta <= Sent
  /\ \A k \in Publishers :
       /\ pub[k].seq <= Sent
       /\ Busy(k) => pub[k].id \in sent /\ pub[k].seq >= 1

TypeInv == TypeOK /\ NumbersFit

PubState == [pc: Stage, id: Messages \cup {NoMessage},
             seq: 0..Cardinality(Messages), open: BOOLEAN]

(* What may be published next is a message that was not published before. *)
LEMMA UnsentIsNew == \A m \in Unsent : m \in Messages /\ m \notin sent
<1>1. ASSUME NEW S \in {Mortal, Messages \ Mortal}, ~(S \subseteq sent)
      PROVE  (CHOOSE m \in S \ sent : TRUE) \in S \ sent
  BY <1>1
<1>2. \A S \in {Mortal, Messages \ Mortal} : S \subseteq Messages
  BY BusAssumption
<1>3. QED
  BY <1>1, <1>2 DEF Unsent

(* How many messages have been sent is a number, and one more when a new  *)
(* one is.                                                                 *)
LEMMA SentCounted ==
  ASSUME TypeOK
  PROVE  /\ IsFiniteSet(sent)
         /\ Sent \in Nat /\ Cardinality(Messages) \in Nat
         /\ Sent <= Cardinality(Messages)
         /\ \A m \in Messages \ sent :
              /\ Cardinality(sent \cup {m}) = Sent + 1
              /\ Sent + 1 <= Cardinality(Messages)
<1>1. IsFiniteSet(Messages) /\ sent \subseteq Messages
  BY BusAssumption DEF TypeOK
<1>2. IsFiniteSet(sent) /\ Sent <= Cardinality(Messages)
  BY <1>1, FS_Subset DEF Sent
<1>3. Sent \in Nat /\ Cardinality(Messages) \in Nat
  BY <1>1, <1>2, FS_CardinalityType DEF Sent
<1>4. ASSUME NEW m \in Messages \ sent
      PROVE  /\ Cardinality(sent \cup {m}) = Sent + 1
             /\ Sent + 1 <= Cardinality(Messages)
  <2>1. Cardinality(sent \cup {m}) = Sent + 1
    BY <1>2, FS_AddElement DEF Sent
  <2>2. sent \cup {m} \subseteq Messages
    BY <1>1
  <2>3. Cardinality(sent \cup {m}) <= Cardinality(Messages)
    BY <1>1, <2>2, FS_Subset
  <2>4. QED
    BY <2>1, <2>3
<1>5. QED
  BY <1>2, <1>3, <1>4

(* What the type invariant says of one publisher.                          *)
LEMMA PublisherTyped ==
  ASSUME TypeInv, NEW k \in Publishers
  PROVE  /\ pub \in [Publishers -> PubState]
         /\ pub[k] \in PubState
         /\ pub[k].pc \in Stage /\ pub[k].open \in BOOLEAN
         /\ pub[k].seq \in 0..Cardinality(Messages)
         /\ pub[k].seq <= Sent
         /\ Busy(k) => Stored(k) \in Entry /\ pub[k].id \in sent
<1>1. pub \in [Publishers -> PubState]
  BY DEF TypeInv, TypeOK, PubState
<1>2. pub[k] \in PubState
  BY <1>1
<1>3. /\ pub[k].pc \in Stage /\ pub[k].open \in BOOLEAN
      /\ pub[k].seq \in 0..Cardinality(Messages)
  BY <1>2 DEF PubState
<1>4. pub[k].seq <= Sent /\ (Busy(k) => pub[k].id \in sent /\ pub[k].seq >= 1)
  BY DEF TypeInv, NumbersFit
<1>5. ASSUME Busy(k) PROVE Stored(k) \in Entry
  <2>1. pub[k].id \in Messages
    BY <1>4, <1>5 DEF TypeInv, TypeOK
  <2>2. PICK q : q = pub[k].seq
    OBVIOUS
  <2>3. Cardinality(Messages) \in Nat
    BY SentCounted DEF TypeInv
  <2>4. q \in 1..Cardinality(Messages)
    BY <1>3, <1>4, <1>5, <2>2, <2>3
  <2>5. QED
    BY <2>1, <2>2, <2>4 DEF Stored, Entry
<1>6. QED
  BY <1>1, <1>2, <1>3, <1>4, <1>5

(* A step that leaves the set of messages sent alone, stores a number that *)
(* fits and leaves every publisher idle or busy with the message it had    *)
(* keeps the numbers fitting.                                              *)
LEMMA NumbersStay ==
  ASSUME TypeInv, UNCHANGED sent, meta' <= Sent,
         \A k \in Publishers :
           \/ pub'[k] = IdlePub
           \/ /\ pub'[k].id = pub[k].id /\ pub'[k].seq = pub[k].seq
              /\ Busy(k)' => Busy(k)
  PROVE  NumbersFit'
<1>1. Sent' = Sent /\ Sent \in Nat
  BY SentCounted DEF Sent, TypeInv
<1>2. ASSUME NEW k \in Publishers
      PROVE  /\ pub'[k].seq <= Sent
             /\ Busy(k)' => pub'[k].id \in sent /\ pub'[k].seq >= 1
  <2>1. CASE pub'[k] = IdlePub
    <3>1. pub'[k].seq = 0 /\ ~(Busy(k)')
      BY <2>1 DEF IdlePub, Busy
    <3>2. QED
      BY <1>1, <3>1
  <2>2. CASE /\ pub'[k].id = pub[k].id /\ pub'[k].seq = pub[k].seq
             /\ Busy(k)' => Busy(k)
    BY <2>2 DEF TypeInv, NumbersFit
  <2>3. QED
    BY <2>1, <2>2
<1>3. QED
  BY <1>1, <1>2 DEF NumbersFit


(* A set of naturals that is not empty has a smallest member, and a        *)
(* bounded one a largest.                                                  *)
LEMMA NatMin ==
  ASSUME NEW T \in SUBSET Nat, T # {}
  PROVE  \E x \in T : \A y \in T : x <= y
<1>1. PICK R : R = OpToRel(<, Nat)
  OBVIOUS
<1>2. IsWellFoundedOn(R, Nat)
  BY <1>1, NatLessThanWellFounded
<1>3. PICK x \in T : \A y \in T : ~ (<<y, x>> \in R)
  BY <1>2, WFMin
<1>4. \A y \in T : <<y, x>> \in R <=> y < x
  BY <1>1 DEF OpToRel
<1>5. QED
  BY <1>3, <1>4, \A a, b \in Nat : ~(b < a) => a <= b

(* The largest is what the poll takes for its cursor.                      *)
LEMMA MaxExists ==
  ASSUME NEW N \in Nat, NEW S \in SUBSET (0..N), S # {}
  PROVE  \E n \in S : \A m \in S : m <= n
<1>1. PICK T : T = {d \in Nat : N - d \in S}
  OBVIOUS
<1>2. T # {}
  <2>1. PICK s \in S : TRUE
    OBVIOUS
  <2>2. N - s \in Nat /\ N - (N - s) = s
    OBVIOUS
  <2>3. QED
    BY <1>1, <2>1, <2>2
<1>3. PICK d \in T : \A e \in T : d <= e
  BY <1>1, <1>2, NatMin
<1>4. N - d \in S /\ d \in Nat
  BY <1>1
<1>5. ASSUME NEW m \in S PROVE m <= N - d
  <2>1. N - m \in Nat /\ N - (N - m) = m
    OBVIOUS
  <2>2. N - m \in T
    BY <1>1, <2>1
  <2>3. d <= N - m
    BY <1>3, <2>2
  <2>4. QED
    BY <1>4, <2>1, <2>3
<1>6. QED
  BY <1>4, <1>5

-----------------------------------------------------------------------------
(* Publishing preserves the type invariant.                                *)
LEMMA PublishTyped ==
  ASSUME TypeInv, NEW k \in Publishers, NEW m \in Messages \ sent, Publish(k, m)
  PROVE  TypeInv'
<1>1. PICK last \in LoadedMeta(k) :
        pub' = [pub EXCEPT ![k] = [pc |-> "append", id |-> m, seq |-> last + 1, open |-> FALSE]]
  BY DEF Publish
<1>2. /\ Sent \in Nat /\ Cardinality(Messages) \in Nat
      /\ Cardinality(sent \cup {m}) = Sent + 1 /\ Sent + 1 <= Cardinality(Messages)
  BY SentCounted DEF TypeInv
<1>3. last \in Nat /\ last <= Sent
  <2>1. meta \in Nat /\ meta <= Sent
    BY <1>2 DEF TypeInv, TypeOK, NumbersFit
  <2>2. last = meta \/ last = 0
    BY <1>1 DEF LoadedMeta
  <2>3. QED
    BY <1>2, <2>1, <2>2
<1>4. sent' = sent \cup {m} /\ Sent' = Sent + 1
  BY <1>2 DEF Publish, Sent
<1>5. PICK r : r = [pc |-> "append", id |-> m, seq |-> last + 1, open |-> FALSE]
  OBVIOUS
<1>6. pub' = [pub EXCEPT ![k] = r]
  BY <1>1, <1>5
<1>7. r \in PubState
  BY <1>2, <1>3, <1>5 DEF PubState, Stage
<1>8. TypeOK'
  <2>1. pub' \in [Publishers -> PubState]
    BY <1>6, <1>7, PublisherTyped
  <2>2. raced' \in BOOLEAN
    BY DEF Publish, TypeInv, TypeOK
  <2>3. QED
    BY <1>4, <2>1, <2>2
    DEF Publish, TypeInv, TypeOK, PubState, files, readers, mishaps
<1>9. NumbersFit'
  <2>1. meta' <= Sent'
    BY <1>2, <1>4 DEF Publish, TypeInv, TypeOK, NumbersFit
  <2>2. ASSUME NEW j \in Publishers
        PROVE  pub'[j].seq <= Sent' /\ (Busy(j)' => pub'[j].id \in sent' /\ pub'[j].seq >= 1)
    <3>1. CASE j = k
      <4>1. pub'[j] = r
        BY <1>6, <3>1, PublisherTyped
      <4>2. r.id = m /\ r.seq = last + 1
        BY <1>5
      <4>3. QED
        BY <1>2, <1>3, <1>4, <4>1, <4>2
    <3>2. CASE j # k
      <4>1. pub'[j] = pub[j]
        BY <1>6, <3>2, PublisherTyped
      <4>2. pub[j].seq \in 0..Cardinality(Messages) /\ pub[j].seq <= Sent
        BY PublisherTyped
      <4>3. Busy(j)' => pub[j].id \in sent /\ pub[j].seq >= 1
        BY <4>1 DEF Busy, TypeInv, NumbersFit
      <4>4. \A q \in 0..Cardinality(Messages) : q <= Sent => q <= Sent + 1
        BY <1>2
      <4>5. pub[j].seq <= Sent + 1
        BY <4>2, <4>4
      <4>6. QED
        BY <1>4, <4>1, <4>3, <4>5
    <3>3. QED
      BY <3>1, <3>2
  <2>3. QED
    BY <2>1, <2>2 DEF NumbersFit
<1>10. QED
  BY <1>8, <1>9 DEF TypeInv

(* What a publisher turns into when it moves on.                           *)
LEMMA MovedOn ==
  ASSUME TypeInv, NEW k \in Publishers, NEW s \in Stage, NEW b \in BOOLEAN,
         Busy(k), pub' = [pub EXCEPT ![k].pc = s, ![k].open = b]
  PROVE  /\ pub' \in [Publishers -> PubState]
         /\ pub'[k].pc = s /\ pub'[k].open = b
         /\ pub'[k].id = pub[k].id /\ pub'[k].seq = pub[k].seq
         /\ Stored(k)' = Stored(k)
         /\ \A j \in Publishers : j # k => pub'[j] = pub[j]
<1>1. pub \in [Publishers -> PubState]
  BY PublisherTyped
<1>2. pub'[k].pc = s /\ pub'[k].open = b /\ pub'[k].id = pub[k].id /\ pub'[k].seq = pub[k].seq
  BY <1>1 DEF PubState
<1>3. pub' \in [Publishers -> PubState]
  BY <1>1 DEF PubState
<1>4. QED
  BY <1>1, <1>2, <1>3 DEF Stored

(* ... the same when only its stage changes, ...                           *)
LEMMA StageMoved ==
  ASSUME TypeInv, NEW k \in Publishers, NEW s \in Stage,
         Busy(k), pub' = [pub EXCEPT ![k].pc = s]
  PROVE  /\ pub' \in [Publishers -> PubState]
         /\ pub'[k].pc = s /\ pub'[k].open = pub[k].open
         /\ pub'[k].id = pub[k].id /\ pub'[k].seq = pub[k].seq
         /\ Stored(k)' = Stored(k)
         /\ \A j \in Publishers : j # k => pub'[j] = pub[j]
<1>1. pub \in [Publishers -> PubState]
  BY PublisherTyped
<1>2. pub'[k].pc = s /\ pub'[k].open = pub[k].open /\ pub'[k].id = pub[k].id
      /\ pub'[k].seq = pub[k].seq
  BY <1>1 DEF PubState
<1>3. pub' \in [Publishers -> PubState]
  BY <1>1 DEF PubState
<1>4. QED
  BY <1>1, <1>2, <1>3 DEF Stored

(* ... and when it is done.                                                *)
LEMMA IdleTyped ==
  ASSUME TypeInv
  PROVE  /\ IdlePub \in PubState /\ IdlePub.pc = "idle"
         /\ \A k \in Publishers : [pub EXCEPT ![k] = IdlePub] \in [Publishers -> PubState]
<1>1. IdlePub \in PubState
  BY SentCounted DEF IdlePub, PubState, Stage, TypeInv
<1>2. QED
  BY <1>1, PublisherTyped DEF IdlePub

-----------------------------------------------------------------------------
(* What the text of a message does to the log: it goes on the last line,   *)
(* which is the only one to change.                                        *)
LEMMA TextWritten ==
  ASSUME log \in Seq(Seq(Entry)), NEW e \in Entry,
         log' = IF log = <<>> THEN <<<<e>>>> ELSE [log EXCEPT ![Len(log)] = Append(@, e)]
  PROVE  /\ log' \in Seq(Seq(Entry)) /\ log' # <<>>
         /\ Len(log') \in Nat \ {0} /\ Len(log') >= Len(log)
         /\ \A i \in DOMAIN log : i <= Len(log')
         /\ DOMAIN log' = 1..Len(log')
         /\ log = <<>> => log'[Len(log')] = <<e>>
         /\ log # <<>> => /\ DOMAIN log' = DOMAIN log /\ Len(log') = Len(log)
                          /\ log'[Len(log')] = Append(log[Len(log)], e)
         /\ \A i \in DOMAIN log' : i # Len(log') => i \in DOMAIN log /\ log'[i] = log[i]
<1>1. CASE log = <<>>
  <2>1. log' = <<<<e>>>>
    BY <1>1
  <2>2. <<e>> \in Seq(Entry)
    OBVIOUS
  <2>3. PICK l : l = <<e>>
    OBVIOUS
  <2>4. log' = <<l>> /\ l \in Seq(Entry)
    BY <2>1, <2>2, <2>3
  <2>5. /\ <<l>> \in Seq(Seq(Entry)) /\ Len(<<l>>) = 1 /\ DOMAIN <<l>> = 1..1
        /\ <<l>>[1] = l
    BY <2>4
  <2>6. Len(log) = 0 /\ DOMAIN log = {}
    BY <1>1
  <2>7. \A i \in 1..1 : i = 1
    OBVIOUS
  <2>8. QED
    BY <1>1, <2>3, <2>4, <2>5, <2>6, <2>7
<1>2. CASE log # <<>>
  <2>1. PICK n : n = Len(log)
    OBVIOUS
  <2>2. n \in Nat \ {0} /\ n \in 1..Len(log) /\ DOMAIN log = 1..n
    BY <1>2, <2>1
  <2>3. log[n] \in Seq(Entry)
    BY <2>1, <2>2
  <2>4. PICK l : l = Append(log[n], e)
    OBVIOUS
  <2>5. l \in Seq(Entry)
    BY <2>3, <2>4
  <2>6. log' = [log EXCEPT ![n] = l]
    BY <1>2, <2>1, <2>4
  <2>7. /\ log' \in Seq(Seq(Entry)) /\ Len(log') = n
        /\ \A i \in 1..n : log'[i] = IF i = n THEN l ELSE log[i]
    <3>1. PICK S : S = Seq(Entry)
      OBVIOUS
    <3>2. log \in Seq(S) /\ l \in S
      BY <2>5, <3>1
    <3>3. /\ [log EXCEPT ![n] = l] \in Seq(S)
          /\ Len([log EXCEPT ![n] = l]) = Len(log)
          /\ \A i \in 1..Len(log) : [log EXCEPT ![n] = l][i] = IF i = n THEN l ELSE log[i]
      BY <2>2, <3>2, ExceptSeq
    <3>4. QED
      BY <2>1, <2>6, <3>1, <3>3
  <2>8. DOMAIN log' = 1..n
    BY <2>2, <2>7
  <2>9. \A i \in 1..n : i <= n
    BY <2>2
  <2>10. log' # <<>>
    <3>1. n # 0 /\ Len(<<>>) = 0
      BY <2>2
    <3>2. QED
      BY <2>7, <3>1
  <2>11. log'[n] = l
    <3>1. n \in 1..n
      BY <2>2
    <3>2. QED
      BY <2>7, <3>1
  <2>12. \A i \in 1..n : i # n => log'[i] = log[i]
    BY <2>7
  <2>13. n >= n
    BY <2>2
  <2>14. log'[Len(log')] = Append(log[Len(log)], e)
    BY <2>1, <2>4, <2>7, <2>11
  <2>15. /\ DOMAIN log' = DOMAIN log /\ Len(log') = Len(log)
         /\ Len(log') \in Nat \ {0} /\ Len(log') >= Len(log)
         /\ \A i \in DOMAIN log : i <= Len(log')
    BY <2>1, <2>2, <2>7, <2>8, <2>9, <2>13
  <2>16. \A i \in DOMAIN log' : i # Len(log') => i \in DOMAIN log /\ log'[i] = log[i]
    BY <2>7, <2>8, <2>12, <2>15
  <2>17. DOMAIN log' = 1..Len(log')
    BY <2>7, <2>8
  <2>18. QED
    BY <1>2, <2>7, <2>10, <2>14, <2>15, <2>16, <2>17
<1>3. QED
  BY <1>1, <1>2

(* The newline starts an empty line, and leaves the others alone.          *)
LEMMA LineEnded ==
  ASSUME log \in Seq(Seq(Entry)), log' = Append(log, <<>>)
  PROVE  /\ log' \in Seq(Seq(Entry)) /\ log' # <<>>
         /\ log'[Len(log')] = <<>>
         /\ \A i \in DOMAIN log : i \in DOMAIN log' /\ log'[i] = log[i]
         /\ \A i \in DOMAIN log' : i \in DOMAIN log \/ i = Len(log')
<1>1. PICK l : l = << >>
  OBVIOUS
<1>2. l \in Seq(Entry)
  BY <1>1
<1>3. PICK n : n = Len(log)
  OBVIOUS
<1>4. n \in Nat /\ DOMAIN log = 1..n
  BY <1>3
<1>5. /\ log' \in Seq(Seq(Entry)) /\ Len(log') = n + 1 /\ DOMAIN log' = 1..(n+1)
      /\ log'[n+1] = l /\ \A i \in 1..n : log'[i] = log[i]
  BY <1>1, <1>2, <1>3
<1>6. log' # <<>>
  BY <1>4, <1>5
<1>7. QED
  BY <1>1, <1>4, <1>5, <1>6

(* The other steps of a publication preserve the type invariant.           *)
LEMMA WriteTextTyped ==
  ASSUME TypeInv, NEW k \in Publishers, WriteText(k)
  PROVE  TypeInv'
<1>1. Busy(k)
  BY DEF WriteText, Busy
<1>2. UNCHANGED <<dir, meta, clearing, readers, expired, sent, acked, raced, cut, mishaps>>
  BY DEF WriteText
<1>3. meta' <= Sent
  BY <1>2 DEF TypeInv, NumbersFit
<1>4. CASE dir
  <2>1. pub' = [pub EXCEPT ![k].pc = "newline", ![k].open = TRUE]
    BY <1>4 DEF WriteText
  <2>2. "newline" \in Stage /\ TRUE \in BOOLEAN
    BY DEF Stage
  <2>3. /\ pub' \in [Publishers -> PubState]
        /\ pub'[k].id = pub[k].id /\ pub'[k].seq = pub[k].seq
        /\ \A j \in Publishers : j # k => pub'[j] = pub[j]
    BY <1>1, <2>1, <2>2, MovedOn
  <2>4. log' \in Seq(Seq(Entry))
    <3>1. Stored(k) \in Entry
      BY <1>1, PublisherTyped
    <3>2. log' = IF log = <<>> THEN <<<<Stored(k)>>>>
                 ELSE [log EXCEPT ![Len(log)] = Append(@, Stored(k))]
      BY <1>4 DEF WriteText
    <3>3. log \in Seq(Seq(Entry))
      BY DEF TypeInv, TypeOK
    <3>4. QED
      BY <3>1, <3>2, <3>3, TextWritten
  <2>5. TypeOK'
    BY <1>2, <2>3, <2>4 DEF TypeInv, TypeOK, PubState, readers, mishaps
  <2>6. \A j \in Publishers : /\ pub'[j].id = pub[j].id /\ pub'[j].seq = pub[j].seq
                              /\ Busy(j)' => Busy(j)
    BY <1>1, <2>3 DEF Busy
  <2>7. NumbersFit'
    BY <1>2, <1>3, <2>6, NumbersStay
  <2>8. QED
    BY <2>5, <2>7 DEF TypeInv
<1>5. CASE ~dir
  <2>1. pub' = [pub EXCEPT ![k] = IdlePub] /\ log' = log
    BY <1>5 DEF WriteText
  <2>2. pub' \in [Publishers -> PubState]
    BY <2>1, IdleTyped
  <2>3. TypeOK'
    BY <1>2, <2>1, <2>2 DEF TypeInv, TypeOK, PubState, readers, mishaps
  <2>4. \A j \in Publishers : \/ pub'[j] = IdlePub
                              \/ pub'[j] = pub[j]
    BY <2>1, PublisherTyped
  <2>5. NumbersFit'
    BY <1>2, <1>3, <2>4, NumbersStay DEF Busy
  <2>6. QED
    BY <2>3, <2>5 DEF TypeInv
<1>6. QED
  BY <1>4, <1>5

(* ... the newline, ...                                                    *)
LEMMA NewlineTyped ==
  ASSUME TypeInv, NEW k \in Publishers, Newline(k)
  PROVE  TypeInv'
<1>1. Busy(k)
  BY DEF Newline, Busy
<1>2. UNCHANGED <<dir, meta, clearing, readers, expired, sent, acked, raced, cut, mishaps>>
  BY DEF Newline
<1>3. meta' <= Sent
  BY <1>2 DEF TypeInv, NumbersFit
<1>4. pub' = [pub EXCEPT ![k].pc = "save"] /\ "save" \in Stage
  BY DEF Newline, Stage
<1>5. /\ pub' \in [Publishers -> PubState]
      /\ pub'[k].id = pub[k].id /\ pub'[k].seq = pub[k].seq
      /\ \A j \in Publishers : j # k => pub'[j] = pub[j]
  BY <1>1, <1>4, StageMoved
<1>6. log' \in Seq(Seq(Entry))
  <2>1. log \in Seq(Seq(Entry))
    BY DEF TypeInv, TypeOK
  <2>2. log' = log \/ log' = Append(log, <<>>)
    BY DEF Newline
  <2>3. QED
    BY <2>1, <2>2, LineEnded
<1>7. TypeOK'
  BY <1>2, <1>5, <1>6 DEF TypeInv, TypeOK, PubState, readers, mishaps
<1>8. \A j \in Publishers : /\ pub'[j].id = pub[j].id /\ pub'[j].seq = pub[j].seq
                            /\ Busy(j)' => Busy(j)
  BY <1>1, <1>5 DEF Busy
<1>9. NumbersFit'
  BY <1>2, <1>3, <1>8, NumbersStay
<1>10. QED
  BY <1>7, <1>9 DEF TypeInv

(* ... and the save, whose number was given to a message.                  *)
LEMMA SaveMetaTyped ==
  ASSUME TypeInv, NEW k \in Publishers, SaveMeta(k)
  PROVE  TypeInv'
<1>1. Busy(k)
  BY DEF SaveMeta, Busy
<1>2. /\ UNCHANGED <<log, clearing, readers, expired, sent, raced, cut, mishaps>>
      /\ dir' = TRUE /\ meta' = pub[k].seq /\ acked' = acked \cup {pub[k].id}
      /\ pub' = [pub EXCEPT ![k] = IdlePub]
  BY DEF SaveMeta
<1>3. /\ pub[k].seq \in 0..Cardinality(Messages) /\ pub[k].seq <= Sent
      /\ pub[k].id \in sent
  BY <1>1, PublisherTyped
<1>4. pub' \in [Publishers -> PubState]
  BY <1>2, IdleTyped
<1>5. TypeOK'
  BY <1>2, <1>3, <1>4 DEF TypeInv, TypeOK, PubState, readers, mishaps
<1>6. \A j \in Publishers : \/ pub'[j] = IdlePub
                            \/ pub'[j] = pub[j]
  BY <1>2, PublisherTyped
<1>7. NumbersFit'
  BY <1>2, <1>3, <1>6, NumbersStay DEF Busy
<1>8. QED
  BY <1>5, <1>7 DEF TypeInv

(* So do the failures of a publication: it is over, ...                    *)
LEMMA AppendFailsTyped ==
  ASSUME TypeInv, NEW k \in Publishers, AppendFails(k)
  PROVE  TypeInv'
<1>1. /\ UNCHANGED <<files, clearing, readers, expired, sent, acked, raced, unsaved, clears>>
      /\ faults < MaxFaults /\ faults' = faults + 1
      /\ pub' = [pub EXCEPT ![k] = IdlePub]
      /\ cut' = cut \/ cut' = cut + 1
  BY DEF AppendFails
<1>2. pub' \in [Publishers -> PubState]
  BY <1>1, IdleTyped
<1>3. faults \in Nat /\ cut \in 0..faults
  BY BusAssumption DEF TypeInv, TypeOK
<1>4. cut' \in 0..faults' /\ faults' \in 0..MaxFaults
  BY <1>1, <1>3, BusAssumption
<1>5. TypeOK'
  BY <1>1, <1>2, <1>4 DEF TypeInv, TypeOK, PubState, files, readers
<1>6. \A j \in Publishers : \/ pub'[j] = IdlePub
                            \/ pub'[j] = pub[j]
  BY <1>1, PublisherTyped
<1>7. meta' <= Sent
  BY <1>1 DEF TypeInv, NumbersFit, files
<1>8. NumbersFit'
  BY <1>1, <1>6, <1>7, NumbersStay DEF Busy
<1>9. QED
  BY <1>5, <1>8 DEF TypeInv

(* ... and the meta file is as it was, or reads as 0.                      *)
LEMMA SaveMetaFailsTyped ==
  ASSUME TypeInv, NEW k \in Publishers, SaveMetaFails(k)
  PROVE  TypeInv'
<1>1. Busy(k)
  BY DEF SaveMetaFails, Busy
<1>2. /\ UNCHANGED <<log, clearing, readers, expired, sent, raced, cut, clears>>
      /\ faults < MaxFaults /\ faults' = faults + 1 /\ unsaved' = TRUE
      /\ dir' \in {dir, TRUE} /\ meta' \in {meta, 0} /\ acked' = acked \cup {pub[k].id}
      /\ pub' = [pub EXCEPT ![k] = IdlePub]
  BY DEF SaveMetaFails
<1>3. pub[k].id \in sent
  BY <1>1, PublisherTyped
<1>4. pub' \in [Publishers -> PubState]
  BY <1>2, IdleTyped
<1>5. faults \in Nat /\ cut \in 0..faults
  BY BusAssumption DEF TypeInv, TypeOK
<1>6. cut' \in 0..faults' /\ faults' \in 0..MaxFaults
  BY <1>2, <1>5, BusAssumption
<1>7. /\ Cardinality(Messages) \in Nat /\ Sent \in Nat
      /\ meta \in 0..Cardinality(Messages) /\ meta <= Sent
  BY SentCounted DEF TypeInv, TypeOK, NumbersFit
<1>8. meta' \in 0..Cardinality(Messages) /\ meta' <= Sent
  BY <1>2, <1>7
<1>9. dir' \in BOOLEAN /\ acked' \subseteq sent
  BY <1>2, <1>3 DEF TypeInv, TypeOK
<1>10. TypeOK'
  BY <1>2, <1>4, <1>6, <1>8, <1>9 DEF TypeInv, TypeOK, PubState, readers
<1>11. \A j \in Publishers : \/ pub'[j] = IdlePub
                             \/ pub'[j] = pub[j]
  BY <1>2, PublisherTyped
<1>12. NumbersFit'
  BY <1>2, <1>8, <1>11, NumbersStay DEF Busy
<1>13. QED
  BY <1>10, <1>12 DEF TypeInv

(* Clearing the topic does: what it closes stays a publication under way.  *)
LEMMA ClearTyped ==
  ASSUME TypeInv, Clear \/ RemoveLog \/ RemoveMeta \/ RemoveDir
  PROVE  TypeInv'
<1>1. CASE Clear
  <2>1. clears' \in 0..MaxClears
    BY <1>1, BusAssumption DEF Clear, TypeInv, TypeOK
  <2>2. TypeOK'
    BY <1>1, <2>1 DEF Clear, TypeInv, TypeOK, files, readers
  <2>3. NumbersFit'
    BY <1>1 DEF Clear, TypeInv, NumbersFit, files, Busy, Sent
  <2>4. QED
    BY <2>2, <2>3 DEF TypeInv
<1>2. CASE RemoveLog
  <2>1. /\ UNCHANGED <<dir, meta, readers, expired, sent, acked, raced, cut, mishaps>>
        /\ log' = <<>> /\ clearing' = clearing \ {"log"}
        /\ pub' = [k \in Publishers |-> [pub[k] EXCEPT !.open = FALSE]]
    BY <1>2 DEF RemoveLog
  <2>2. ASSUME NEW k \in Publishers
        PROVE  /\ pub'[k] \in PubState
               /\ pub'[k].id = pub[k].id /\ pub'[k].seq = pub[k].seq /\ pub'[k].pc = pub[k].pc
    <3>1. PICK r : r = pub[k]
      OBVIOUS
    <3>2. r \in PubState /\ pub'[k] = [r EXCEPT !.open = FALSE]
      BY <2>1, <3>1, PublisherTyped
    <3>3. QED
      BY <3>1, <3>2 DEF PubState
  <2>3. pub' \in [Publishers -> PubState]
    BY <2>1, <2>2
  <2>4. log' \in Seq(Seq(Entry))
    BY <2>1
  <2>5. TypeOK'
    BY <2>1, <2>3, <2>4 DEF TypeInv, TypeOK, PubState, readers, mishaps
  <2>6. NumbersFit'
    <3>1. meta' <= Sent
      BY <2>1 DEF TypeInv, NumbersFit
    <3>2. QED
      BY <2>1, <2>2, <3>1, NumbersStay DEF Busy
  <2>7. QED
    BY <2>5, <2>6 DEF TypeInv
<1>3. CASE RemoveMeta
  <2>1. /\ UNCHANGED <<dir, log, pub, readers, expired, sent, acked, raced, cut, mishaps>>
        /\ meta' = 0 /\ clearing' = clearing \ {"meta"}
    BY <1>3 DEF RemoveMeta
  <2>2. Cardinality(Messages) \in Nat /\ Sent \in Nat
    BY SentCounted DEF TypeInv
  <2>3. meta' \in 0..Cardinality(Messages) /\ meta' <= Sent
    BY <2>1, <2>2
  <2>4. TypeOK'
    BY <2>1, <2>3 DEF TypeInv, TypeOK, readers, mishaps
  <2>5. NumbersFit'
    BY <2>1, <2>3, NumbersStay DEF Busy
  <2>6. QED
    BY <2>4, <2>5 DEF TypeInv
<1>4. CASE RemoveDir
  <2>1. /\ UNCHANGED <<log, meta, pub, readers, expired, sent, acked, raced, cut, mishaps>>
        /\ clearing' = {}
    BY <1>4 DEF RemoveDir
  <2>2. dir' \in BOOLEAN
    BY <1>4 DEF RemoveDir
  <2>3. TypeOK'
    BY <2>1, <2>2 DEF TypeInv, TypeOK, readers, mishaps
  <2>4. NumbersFit'
    BY <2>1 DEF TypeInv, NumbersFit, Busy, Sent
  <2>5. QED
    BY <2>3, <2>4 DEF TypeInv
<1>5. QED
  BY <1>1, <1>2, <1>3, <1>4

-----------------------------------------------------------------------------
(* What the lines that parse hold.                                         *)
LEMMA ParsedTyped ==
  ASSUME log \in Seq(Seq(Entry))
  PROVE  /\ Parsed \subseteq 1..Len(log) /\ IsFiniteSet(Parsed) /\ Parsed \subseteq Nat
         /\ \A i \in Parsed : /\ On(i) \in Entry
                              /\ On(i).id \in Messages
                              /\ On(i).seq \in 1..Cardinality(Messages)
<1>1. Parsed \subseteq 1..Len(log) /\ Len(log) \in Nat
  BY DEF Parsed
<1>2. IsFiniteSet(1..Len(log))
  BY <1>1, FS_Interval
<1>3. IsFiniteSet(Parsed)
  BY <1>1, <1>2, FS_Subset
<1>4. ASSUME NEW i \in Parsed
      PROVE  /\ On(i) \in Entry
             /\ On(i).id \in Messages
             /\ On(i).seq \in 1..Cardinality(Messages)
  <2>1. PICK l : l = log[i]
    OBVIOUS
  <2>2. l \in Seq(Entry) /\ Len(l) = 1
    BY <2>1, <1>4 DEF Parsed
  <2>3. l[1] \in Entry
    BY <2>2
  <2>4. On(i) \in Entry
    BY <2>1, <2>3 DEF On
  <2>5. QED
    BY <2>4 DEF Entry
<1>5. QED
  BY <1>1, <1>3, <1>4

(* What a poll does: it gives out the fresh lines, and its cursor is the   *)
(* number of the one with the highest.                                     *)
LEMMA PollGives ==
  ASSUME TypeOK, NEW c \in Consumers, Poll(c)
  PROVE  \E p \in Fresh(c) :
           /\ since' = [since EXCEPT ![c] = On(p).seq]
           /\ \A i \in Fresh(c) : On(i).seq <= On(p).seq
           /\ received' = [received EXCEPT ![c] = @ \cup {On(i).id : i \in Fresh(c)}]
           /\ Fresh(c) \subseteq Ahead(c) /\ Ahead(c) \subseteq Parsed
<1>1. Fresh(c) \subseteq Ahead(c) /\ Ahead(c) \subseteq Parsed
  BY DEF Fresh, First, Ahead
<1>2. log \in Seq(Seq(Entry)) /\ Cardinality(Messages) \in Nat
  BY SentCounted DEF TypeOK
<1>3. PICK given : given = {On(i) : i \in Fresh(c)}
  OBVIOUS
<1>4. /\ given # {}
      /\ received' = [received EXCEPT ![c] = @ \cup {e.id : e \in given}]
      /\ since' = [since EXCEPT ![c] = CHOOSE n \in {e.seq : e \in given} :
                                         \A e \in given : e.seq <= n]
  BY <1>3 DEF Poll
<1>5. PICK seqs : seqs = {e.seq : e \in given}
  OBVIOUS
<1>6. seqs \subseteq 0..Cardinality(Messages) /\ seqs # {}
  <2>1. \A e \in given : e.seq \in 1..Cardinality(Messages)
    BY <1>1, <1>2, <1>3, ParsedTyped
  <2>2. \A n \in 1..Cardinality(Messages) : n \in 0..Cardinality(Messages)
    BY <1>2
  <2>3. QED
    BY <1>4, <1>5, <2>1, <2>2
<1>7. \E n \in seqs : \A m \in seqs : m <= n
  BY <1>2, <1>6, MaxExists
<1>8. PICK n : n = CHOOSE x \in seqs : \A e \in given : e.seq <= x
  OBVIOUS
<1>9. n \in seqs /\ \A e \in given : e.seq <= n
  <2>1. \E x \in seqs : \A e \in given : e.seq <= x
    BY <1>5, <1>7
  <2>2. QED
    BY <1>8, <2>1, Zenon
<1>10. since' = [since EXCEPT ![c] = n]
  BY <1>4, <1>5, <1>8, Zenon
<1>11. PICK p \in Fresh(c) : n = On(p).seq
  BY <1>3, <1>5, <1>9
<1>12. \A i \in Fresh(c) : On(i).seq <= On(p).seq
  BY <1>3, <1>9, <1>11
<1>13. {e.id : e \in given} = {On(i).id : i \in Fresh(c)}
  BY <1>3
<1>14. received' = [received EXCEPT ![c] = @ \cup {On(i).id : i \in Fresh(c)}]
  BY <1>4, <1>13, Zenon
<1>15. since' = [since EXCEPT ![c] = On(p).seq]
  BY <1>10, <1>11
<1>16. QED
  BY <1>1, <1>12, <1>14, <1>15

(* A poll, the end of a ttl and a crash preserve the type invariant.       *)
LEMMA PollTyped ==
  ASSUME TypeInv, NEW c \in Consumers, Poll(c)
  PROVE  TypeInv'
<1>1. UNCHANGED <<files, pub, clearing, expired, sent, acked, raced, cut, mishaps>>
  BY DEF Poll
<1>2. PICK p \in Fresh(c) :
        /\ since' = [since EXCEPT ![c] = On(p).seq]
        /\ received' = [received EXCEPT ![c] = @ \cup {On(i).id : i \in Fresh(c)}]
        /\ Fresh(c) \subseteq Parsed
  BY PollGives DEF TypeInv
<1>3. /\ \A i \in Fresh(c) : On(i).id \in Messages
      /\ On(p).seq \in 1..Cardinality(Messages)
  BY <1>2, ParsedTyped DEF TypeInv, TypeOK
<1>4. PICK q : q = On(p).seq
  OBVIOUS
<1>5. q \in 0..Cardinality(Messages)
  BY <1>3, <1>4
<1>6. since' \in [Consumers -> 0..Cardinality(Messages)]
  BY <1>2, <1>4, <1>5 DEF TypeInv, TypeOK
<1>7. PICK S : S = {On(i).id : i \in Fresh(c)}
  OBVIOUS
<1>8. S \subseteq Messages
  BY <1>3, <1>7
<1>9. received' \in [Consumers -> SUBSET Messages]
  <2>1. received' = [received EXCEPT ![c] = @ \cup S]
    BY <1>2, <1>7
  <2>2. received \in [Consumers -> SUBSET Messages]
    BY DEF TypeInv, TypeOK
  <2>3. QED
    BY <1>8, <2>1, <2>2
<1>10. TypeOK'
  BY <1>1, <1>6, <1>9 DEF TypeInv, TypeOK, files, mishaps
<1>11. NumbersFit'
  BY <1>1 DEF TypeInv, NumbersFit, files, Busy, Sent
<1>12. QED
  BY <1>10, <1>11 DEF TypeInv

(* ... the end of a ttl, ...                                               *)
LEMMA ExpireTyped ==
  ASSUME TypeInv, NEW m \in Messages, Expire(m)
  PROVE  TypeInv'
<1>1. TypeOK'
  BY DEF Expire, TypeInv, TypeOK, files, readers, mishaps
<1>2. NumbersFit'
  BY DEF Expire, TypeInv, NumbersFit, files, Busy, Sent
<1>3. QED
  BY <1>1, <1>2 DEF TypeInv

(* ... and a crash.                                                        *)
LEMMA CrashTyped ==
  ASSUME TypeInv, Crash
  PROVE  TypeInv'
<1>1. /\ UNCHANGED <<dir, log, readers, expired, sent, acked, raced, unsaved, clears>>
      /\ faults < MaxFaults /\ faults' = faults + 1 /\ clearing' = {}
      /\ pub' = [k \in Publishers |-> IdlePub]
      /\ meta' = meta \/ meta' = 0
  BY DEF Crash
<1>2. /\ Cardinality(Messages) \in Nat /\ Sent \in Nat
      /\ meta \in 0..Cardinality(Messages) /\ meta <= Sent
  BY SentCounted DEF TypeInv, TypeOK, NumbersFit
<1>3. meta' \in 0..Cardinality(Messages) /\ meta' <= Sent
  BY <1>1, <1>2
<1>4. pub' \in [Publishers -> PubState]
  BY <1>1, IdleTyped
<1>5. faults \in Nat /\ cut \in 0..faults
  BY BusAssumption DEF TypeInv, TypeOK
<1>6. cut' \in 0..faults'
  <2>1. cut' = cut + 1 \/ cut' = cut
    BY DEF Crash
  <2>2. QED
    BY <1>1, <1>5, <2>1
<1>7. faults' \in 0..MaxFaults
  BY <1>1, <1>5, BusAssumption
<1>8. TypeOK'
  BY <1>1, <1>3, <1>4, <1>6, <1>7 DEF TypeInv, TypeOK, PubState, readers
<1>9. NumbersFit'
  BY <1>1, <1>3, NumbersStay
<1>10. QED
  BY <1>8, <1>9 DEF TypeInv

(* Types hold initially.                                                   *)
LEMMA InitTyped == Init => TypeInv
<1>1. SUFFICES ASSUME Init PROVE TypeInv
  OBVIOUS
<1>2. IsFiniteSet({}) /\ Cardinality({}) = 0
  BY FS_EmptySet
<1>3. Cardinality(Messages) \in Nat
  BY BusAssumption, FS_CardinalityType
<1>4. IdlePub \in PubState /\ IdlePub.pc = "idle" /\ IdlePub.seq = 0
  BY <1>3 DEF IdlePub, PubState, Stage
<1>5. pub \in [Publishers -> PubState]
  BY <1>1, <1>4 DEF Init
<1>6. log \in Seq(Seq(Entry))
  BY <1>1 DEF Init
<1>7. TypeOK
  <2>1. since \in [Consumers -> 0..Cardinality(Messages)]
    BY <1>1, <1>3 DEF Init
  <2>2. 0 \in 0..Cardinality(Messages) /\ 0 \in 0..MaxClears /\ 0 \in 0..MaxFaults /\ 0 \in 0..0
    BY <1>3, BusAssumption
  <2>3. meta \in 0..Cardinality(Messages)
    BY <1>1, <2>2 DEF Init
  <2>4. clears \in 0..MaxClears /\ faults \in 0..MaxFaults /\ cut \in 0..faults
    BY <1>1, <2>2 DEF Init
  <2>5. dir \in BOOLEAN /\ raced \in BOOLEAN /\ unsaved \in BOOLEAN /\ clearing \subseteq {"log", "meta", "dir"}
    BY <1>1 DEF Init
  <2>6. received \in [Consumers -> SUBSET Messages]
    BY <1>1 DEF Init
  <2>7. expired \subseteq sent /\ acked \subseteq sent /\ sent \subseteq Messages
    BY <1>1 DEF Init
  <2>8. QED
    BY <1>5, <1>6, <2>1, <2>3, <2>4, <2>5, <2>6, <2>7 DEF TypeOK, PubState
<1>8. NumbersFit
  <2>1. Sent = 0 /\ meta = 0
    BY <1>1, <1>2 DEF Init, Sent
  <2>2. \A k \in Publishers : pub[k].seq = 0 /\ ~Busy(k)
    BY <1>1, <1>4 DEF Init, Busy
  <2>3. QED
    BY <2>1, <2>2 DEF NumbersFit
<1>9. QED
  BY <1>7, <1>8 DEF TypeInv

(* Every step preserves the type invariant.                                *)
LEMMA StepTyped == TypeInv /\ [Next]_vars => TypeInv'
<1>1. SUFFICES ASSUME TypeInv, [Next]_vars PROVE TypeInv'
  OBVIOUS
<1>2. CASE UNCHANGED vars
  <2>1. TypeOK'
    BY <1>1, <1>2 DEF vars, files, readers, mishaps, TypeInv, TypeOK
  <2>2. NumbersFit'
    BY <1>1, <1>2 DEF vars, files, readers, mishaps, TypeInv, NumbersFit, Busy, Sent
  <2>3. QED
    BY <2>1, <2>2 DEF TypeInv
<1>3. ASSUME NEW k \in Publishers, NEW m \in Unsent, Publish(k, m) PROVE TypeInv'
  BY <1>1, <1>3, UnsentIsNew, PublishTyped
<1>4. ASSUME NEW k \in Publishers, WriteText(k) \/ Newline(k) \/ SaveMeta(k) PROVE TypeInv'
  BY <1>1, <1>4, WriteTextTyped, NewlineTyped, SaveMetaTyped
<1>10. ASSUME NEW k \in Publishers, AppendFails(k) \/ SaveMetaFails(k) PROVE TypeInv'
  BY <1>1, <1>10, AppendFailsTyped, SaveMetaFailsTyped
<1>5. CASE Clear \/ RemoveLog \/ RemoveMeta \/ RemoveDir
  BY <1>1, <1>5, ClearTyped
<1>6. ASSUME NEW c \in Consumers, Poll(c) PROVE TypeInv'
  BY <1>1, <1>6, PollTyped
<1>7. ASSUME NEW m \in Messages, Expire(m) PROVE TypeInv'
  BY <1>1, <1>7, ExpireTyped
<1>8. CASE Crash
  BY <1>1, <1>8, CrashTyped
<1>9. QED
  BY <1>1, <1>2, <1>3, <1>4, <1>5, <1>6, <1>7, <1>8, <1>10 DEF Next

(* In every reachable state the topic's files, the publishers and the      *)
(* cursors are of their types, and no sequence number, in the meta file,   *)
(* on a line or in a cursor, is larger than the number of messages.        *)
THEOREM TypesHold == Spec => []TypeOK
<1>1. TypeInv => TypeOK
  BY DEF TypeInv
<1>2. QED
  BY <1>1, InitTyped, StepTyped, PTL DEF Spec

-----------------------------------------------------------------------------
(* The line that is not terminated, if there is one.                       *)
Last == log[Len(log)]
Writing(k) == pub[k].pc = "newline"

(* While no two publications overlap and nothing is cleared: a publication *)
(* has the file to itself.  What is on the last line is not acknowledged,  *)
(* and ends with the text of whoever is about to terminate it; once it is  *)
(* terminated the last line is empty.                                      *)
OneAtATime ==
  /\ clearing = {}
  /\ \A j, k \in Publishers : Busy(j) /\ Busy(k) => j = k
  /\ \A k \in Publishers : Busy(k) => dir /\ pub[k].id \notin acked
  /\ \A k \in Publishers : Writing(k) => pub[k].open
  /\ log = <<>> => \A k \in Publishers : pub[k].pc \in {"idle", "append"}
  /\ log # <<>> =>
       /\ \A i \in DOMAIN Last : Last[i].id \notin acked
       /\ \A k \in Publishers :
            /\ Writing(k) => Last # <<>> /\ Last[Len(Last)] = Stored(k)
            /\ pub[k].pc = "save" => Last = <<>>

(* A message is lost when it is acknowledged and cannot be read.  One more *)
(* will be: the next one written on a line that a crash left behind, or    *)
(* the one whose publisher has put its text there already.                 *)
Lost == acked \ Readable
Spoiled ==
  \/ log # <<>> /\ Last # <<>> /\ ~(Len(Last) = 1 /\ \E k \in Publishers : Writing(k))
  \/ \E k \in Publishers : pub[k].pc = "save" /\ pub[k].id \notin Readable

LossesPaid == Cardinality(Lost) + (IF Spoiled THEN 1 ELSE 0) <= cut

LossInv == ~raced /\ clears = 0 => OneAtATime /\ LossesPaid

(* How many messages are lost is a number.                                 *)
LEMMA LostCounted ==
  ASSUME TypeInv
  PROVE  IsFiniteSet(Lost) /\ Cardinality(Lost) \in Nat /\ cut \in Nat
<1>1. Lost \subseteq sent
  BY DEF TypeInv, TypeOK, Lost
<1>2. IsFiniteSet(sent)
  BY SentCounted DEF TypeInv
<1>3. IsFiniteSet(Lost) /\ Cardinality(Lost) \in Nat
  BY <1>1, <1>2, FS_Subset, FS_CardinalityType
<1>4. cut \in Nat
  BY BusAssumption DEF TypeInv, TypeOK
<1>5. QED
  BY <1>3, <1>4

(* A step by which no message is lost and no line spoiled keeps the        *)
(* account.                                                                *)
LEMMA AccountKept ==
  ASSUME TypeInv, LossesPaid, Lost' \subseteq Lost, Spoiled' => Spoiled, cut' = cut
  PROVE  LossesPaid'
<1>1. Cardinality(Lost') <= Cardinality(Lost) /\ Cardinality(Lost') \in Nat
  BY LostCounted, FS_Subset, FS_CardinalityType
<1>2. PICK x : x = (IF Spoiled THEN 1 ELSE 0)
  OBVIOUS
<1>3. PICK y : y = (IF Spoiled' THEN 1 ELSE 0)
  OBVIOUS
<1>4. x \in Nat /\ y \in Nat /\ y <= x
  BY <1>2, <1>3
<1>5. Cardinality(Lost) + x <= cut
  BY <1>2 DEF LossesPaid
<1>6. \A a, b, c \in Nat : a <= b /\ b + x <= c => a + y <= c
  BY <1>4
<1>7. Cardinality(Lost') + y <= cut
  BY <1>1, <1>5, <1>6, LostCounted
<1>8. QED
  BY <1>3, <1>7 DEF LossesPaid

(* What a message's text, or the newline, does to what can be read: only   *)
(* the last line may stop parsing.                                         *)
LEMMA ReadableAfterText ==
  ASSUME log \in Seq(Seq(Entry)), NEW e \in Entry,
         log' = IF log = <<>> THEN <<<<e>>>> ELSE [log EXCEPT ![Len(log)] = Append(@, e)]
  PROVE  /\ Last' = IF log = <<>> THEN <<e>> ELSE Append(Last, e)
         /\ log' # <<>>
         /\ \A i \in Parsed :
              \/ i \in Parsed' /\ On(i)' = On(i)
              \/ log # <<>> /\ i = Len(log)
         /\ \A i \in Parsed' :
              \/ i \in Parsed /\ On(i)' = On(i) /\ i < Len(log')
              \/ i = Len(log')
         /\ log = <<>> \/ Last = <<>> =>
              /\ Len(log') \in Parsed' /\ On(Len(log))' = e
              /\ \A i \in Parsed : i \in Parsed' /\ On(i)' = On(i) /\ i < Len(log')
<1>1. /\ log' # <<>> /\ Len(log') \in Nat \ {0} /\ Len(log') \in DOMAIN log'
      /\ \A i \in DOMAIN log : i <= Len(log')
      /\ log = <<>> => log'[Len(log')] = <<e>>
      /\ log # <<>> => /\ DOMAIN log' = DOMAIN log /\ Len(log') = Len(log)
                       /\ log'[Len(log')] = Append(log[Len(log)], e)
      /\ \A i \in DOMAIN log' : i # Len(log') => i \in DOMAIN log /\ log'[i] = log[i]
      /\ DOMAIN log' = 1..Len(log') /\ DOMAIN log = 1..Len(log)
  <2>1. \A n \in Nat \ {0} : n \in 1..n
    OBVIOUS
  <2>2. QED
    BY <2>1, TextWritten
<1>2. Last' = IF log = <<>> THEN <<e>> ELSE Append(Last, e)
  BY <1>1 DEF Last
<1>3. ASSUME NEW i \in Parsed
      PROVE  \/ i \in Parsed' /\ On(i)' = On(i)
             \/ log # <<>> /\ i = Len(log)
  <2>1. i \in DOMAIN log /\ Len(log[i]) = 1 /\ log # <<>>
    BY DEF Parsed
  <2>2. CASE i # Len(log)
    <3>1. i \in DOMAIN log' /\ log'[i] = log[i]
      BY <1>1, <2>1, <2>2
    <3>2. QED
      BY <2>1, <3>1 DEF Parsed, On
  <2>3. QED
    BY <2>1, <2>2
<1>4. ASSUME NEW i \in Parsed'
      PROVE  \/ i \in Parsed /\ On(i)' = On(i) /\ i < Len(log')
             \/ i = Len(log')
  <2>1. i \in DOMAIN log' /\ Len(log'[i]) = 1
    BY DEF Parsed
  <2>2. CASE i # Len(log')
    <3>1. i \in DOMAIN log /\ log'[i] = log[i]
      BY <1>1, <2>1, <2>2
    <3>2. \A n \in Nat : \A x \in 1..n : x # n => x < n
      OBVIOUS
    <3>3. i < Len(log')
      BY <1>1, <2>1, <2>2, <3>2
    <3>4. QED
      BY <2>1, <3>1, <3>3 DEF Parsed, On
  <2>3. QED
    BY <2>2
<1>5. ASSUME log = <<>> \/ Last = <<>>
      PROVE  /\ Len(log') \in Parsed' /\ On(Len(log))' = e
             /\ \A i \in Parsed : i \in Parsed' /\ On(i)' = On(i) /\ i < Len(log')
  <2>1. log'[Len(log')] = <<e>>
    <3>1. CASE log = <<>>
      BY <1>1, <3>1
    <3>2. CASE log # <<>> /\ Last = <<>>
      <4>1. log'[Len(log')] = Append(<<>>, e)
        BY <1>1, <3>2 DEF Last
      <4>2. Append(<<>>, e) = <<e>>
        OBVIOUS
      <4>3. QED
        BY <4>1, <4>2
    <3>3. QED
      BY <1>5, <3>1, <3>2
  <2>2. PICK l : l = <<e>>
    OBVIOUS
  <2>3. Len(l) = 1 /\ l[1] = e
    BY <2>2
  <2>4. Len(log') \in Parsed' /\ On(Len(log))' = e
    BY <1>1, <2>1, <2>2, <2>3 DEF Parsed, On
  <2>5. ASSUME NEW i \in Parsed
        PROVE  i \in Parsed' /\ On(i)' = On(i) /\ i < Len(log')
    <3>1. i \in DOMAIN log /\ Len(log[i]) = 1 /\ log # <<>>
      BY DEF Parsed
    <3>2. i # Len(log)
      <4>1. Last = <<>>
        BY <1>5, <3>1
      <4>2. Len(<<>>) # 1
        OBVIOUS
      <4>3. QED
        BY <3>1, <4>1, <4>2 DEF Last
    <3>3. i \in Parsed' /\ On(i)' = On(i)
      BY <1>3, <3>2
    <3>4. i # Len(log') /\ i \in 1..Len(log')
      BY <1>1, <3>1, <3>2
    <3>5. \A n \in Nat : \A x \in 1..n : x # n => x < n
      OBVIOUS
    <3>6. QED
      BY <1>1, <3>3, <3>4, <3>5
  <2>6. QED
    BY <2>4, <2>5
<1>6. QED
  BY <1>1, <1>2, <1>3, <1>4, <1>5

(* ... and the newline changes nothing that can be read.                   *)
LEMMA ReadableAfterNewline ==
  ASSUME log \in Seq(Seq(Entry)), log' = Append(log, <<>>)
  PROVE  /\ log' # <<>> /\ Last' = <<>>
         /\ Parsed' = Parsed /\ Readable' = Readable
         /\ \A i \in Parsed : On(i)' = On(i)
<1>1. /\ log' # <<>> /\ Last' = <<>>
      /\ \A i \in DOMAIN log : i \in DOMAIN log' /\ log'[i] = log[i]
      /\ \A i \in DOMAIN log' : i \in DOMAIN log \/ i = Len(log')
  BY LineEnded DEF Last
<1>2. Len(log'[Len(log')]) # 1
  <2>1. Len(<<>>) = 0
    OBVIOUS
  <2>2. QED
    BY <1>1, <2>1 DEF Last
<1>3. Parsed' = Parsed
  BY <1>1, <1>2 DEF Parsed
<1>4. \A i \in Parsed : On(i)' = On(i)
  BY <1>1 DEF Parsed, On
<1>5. Readable' = Readable
  BY <1>3, <1>4 DEF Readable
<1>6. QED
  BY <1>1, <1>3, <1>4, <1>5

(* Publishing, when nobody else is: nothing is written yet.                *)
LEMMA PublishPaid ==
  ASSUME TypeInv, OneAtATime, LossesPaid, ~raced',
         NEW k \in Publishers, NEW m \in Messages \ sent, Publish(k, m)
  PROVE  OneAtATime' /\ LossesPaid'
<1>1. /\ UNCHANGED <<log, meta, clearing, expired, acked, cut, clears>>
      /\ dir' = TRUE /\ \A j \in Publishers : ~Busy(j)
  BY DEF Publish, mishaps
<1>2. PICK last \in LoadedMeta(k) :
        pub' = [pub EXCEPT ![k] = [pc |-> "append", id |-> m, seq |-> last + 1, open |-> FALSE]]
  BY DEF Publish
<1>3. /\ pub'[k].pc = "append" /\ pub'[k].id = m
      /\ \A j \in Publishers : j # k => pub'[j] = pub[j]
  BY <1>2, PublisherTyped
<1>4. m \notin acked
  BY DEF TypeInv, TypeOK
<1>5. \A j \in Publishers : j # k => pub'[j].pc = "idle" /\ pub[j].pc = "idle"
  BY <1>1, <1>3 DEF Busy
<1>6. pub[k].pc = "idle"
  BY <1>1 DEF Busy
<1>7. \A j \in Publishers : pub'[j].pc \notin {"newline", "save"} /\ pub[j].pc = "idle"
  BY <1>3, <1>5, <1>6
<1>8. Last' = Last
  BY <1>1 DEF Last
<1>9. OneAtATime'
  <2>1. clearing' = {}
    BY <1>1 DEF OneAtATime
  <2>2. \A i, j \in Publishers : Busy(i)' /\ Busy(j)' => i = j
    BY <1>5 DEF Busy
  <2>3. \A j \in Publishers : Busy(j)' => dir' /\ pub'[j].id \notin acked'
    BY <1>1, <1>3, <1>4, <1>5 DEF Busy
  <2>4. \A j \in Publishers : ~(Writing(j)') /\ pub'[j].pc # "save" /\ pub'[j].pc \in {"idle", "append"}
    BY <1>3, <1>5, <1>7 DEF Writing
  <2>5. log' # <<>> => \A i \in DOMAIN Last' : (Last')[i].id \notin acked'
    BY <1>1, <1>8 DEF OneAtATime
  <2>6. QED
    BY <2>1, <2>2, <2>3, <2>4, <2>5 DEF OneAtATime
<1>10. LossesPaid'
  <2>1. Lost' = Lost
    BY <1>1 DEF Lost, Readable, Parsed, On
  <2>2. Spoiled' => Spoiled
    BY <1>1, <1>7, <1>8 DEF Spoiled, Writing
  <2>3. QED
    BY <1>1, <2>1, <2>2, AccountKept
<1>11. QED
  BY <1>9, <1>10

(* Writing the text: it goes on a fresh line, or on one that a crash left, *)
(* whose loss is accounted for.                                            *)
LEMMA WriteTextPaid ==
  ASSUME TypeInv, OneAtATime, LossesPaid, NEW k \in Publishers, WriteText(k)
  PROVE  OneAtATime' /\ LossesPaid'
<1>1. Busy(k) /\ pub[k].pc = "append"
  BY DEF WriteText, Busy
<1>2. dir /\ pub[k].id \notin acked /\ \A j \in Publishers : j # k => pub[j].pc = "idle"
  BY <1>1 DEF OneAtATime, Busy
<1>3. /\ UNCHANGED <<dir, clearing, acked, cut>>
      /\ pub' = [pub EXCEPT ![k].pc = "newline", ![k].open = TRUE]
      /\ log' = IF log = <<>> THEN <<<<Stored(k)>>>>
                ELSE [log EXCEPT ![Len(log)] = Append(@, Stored(k))]
  BY <1>2 DEF WriteText
<1>4. /\ pub'[k].pc = "newline" /\ pub'[k].open = TRUE /\ pub'[k].id = pub[k].id
      /\ Stored(k)' = Stored(k)
      /\ \A j \in Publishers : j # k => pub'[j] = pub[j]
  <2>1. "newline" \in Stage /\ TRUE \in BOOLEAN
    BY DEF Stage
  <2>2. QED
    BY <1>1, <1>3, <2>1, MovedOn
<1>5. log \in Seq(Seq(Entry)) /\ Stored(k) \in Entry
  BY <1>1, PublisherTyped DEF TypeInv, TypeOK
<1>6. /\ Last' = IF log = <<>> THEN <<Stored(k)>> ELSE Append(Last, Stored(k))
      /\ log' # <<>>
      /\ \A i \in Parsed :
           \/ i \in Parsed' /\ On(i)' = On(i)
           \/ log # <<>> /\ i = Len(log)
  BY <1>3, <1>5, ReadableAfterText
<1>7. log # <<>> => Last \in Seq(Entry)
  BY <1>5 DEF Last
<1>8. PICK e : e = Stored(k)
  OBVIOUS
<1>9. e.id \notin acked
  BY <1>2, <1>8 DEF Stored
<1>10. PICK l : l = Last'
  OBVIOUS
<1>11. /\ Len(l) \in Nat \ {0} /\ l[Len(l)] = e
       /\ \A i \in DOMAIN l : l[i].id \notin acked
       /\ \/ Len(l) = 1
          \/ log # <<>> /\ Last # <<>>
  <2>1. CASE log = <<>>
    <3>1. l = <<e>>
      BY <1>6, <1>8, <1>10, <2>1
    <3>2. Len(l) = 1 /\ l[1] = e
      BY <3>1
    <3>3. DOMAIN l = {1}
      BY <3>1
    <3>4. \A i \in DOMAIN l : l[i].id \notin acked
      BY <1>9, <3>2, <3>3
    <3>5. Len(l) \in Nat \ {0} /\ l[Len(l)] = e
      BY <3>2
    <3>6. QED
      BY <3>2, <3>4, <3>5
  <2>2. CASE log # <<>>
    <3>1. PICK o : o = Last
      OBVIOUS
    <3>2. l = Append(o, e) /\ o \in Seq(Entry)
      BY <1>6, <1>7, <1>8, <1>10, <2>2, <3>1
    <3>3. \A i \in DOMAIN o : o[i].id \notin acked
      BY <2>2, <3>1 DEF OneAtATime
    <3>4. /\ Len(l) = Len(o) + 1 /\ l[Len(l)] = e /\ Len(o) \in Nat
          /\ \A i \in DOMAIN l : \/ i = Len(l)
                                 \/ i \in DOMAIN o /\ l[i] = o[i]
      <4>1. e \in Entry
        BY <1>5, <1>8
      <4>2. PICK n : n = Len(o)
        OBVIOUS
      <4>3. n \in Nat /\ Len(l) = n + 1 /\ l[n + 1] = e /\ DOMAIN l = 1..(n + 1) /\ DOMAIN o = 1..n
        BY <3>2, <4>1, <4>2
      <4>4. \A i \in 1..n : l[i] = o[i]
        BY <3>2, <4>1, <4>2
      <4>5. \A i \in 1..(n + 1) : i = n + 1 \/ i \in 1..n
        BY <4>3
      <4>6. QED
        BY <4>2, <4>3, <4>4, <4>5
    <3>5. o = <<>> => Len(o) = 0
      OBVIOUS
    <3>6. \A i \in DOMAIN l : l[i].id \notin acked
      BY <1>9, <3>3, <3>4
    <3>7. Len(l) = 1 \/ o # <<>>
      BY <3>4, <3>5
    <3>8. Len(l) \in Nat \ {0}
      BY <3>4
    <3>9. QED
      BY <2>2, <3>1, <3>4, <3>6, <3>7, <3>8
  <2>3. QED
    BY <2>1, <2>2
<1>12. l # <<>>
  <2>1. Len(<<>>) = 0
    OBVIOUS
  <2>2. QED
    BY <1>11, <2>1
<1>13. OneAtATime'
  <2>1. clearing' = {}
    BY <1>3 DEF OneAtATime
  <2>2. \A i, j \in Publishers : Busy(i)' /\ Busy(j)' => i = j
    BY <1>2, <1>4 DEF Busy
  <2>3. \A j \in Publishers : Busy(j)' => dir' /\ pub'[j].id \notin acked'
    <3>1. \A j \in Publishers : Busy(j)' => j = k
      BY <1>2, <1>4 DEF Busy
    <3>2. dir' /\ pub'[k].id \notin acked'
      BY <1>2, <1>3, <1>4
    <3>3. QED
      BY <3>1, <3>2
  <2>4. \A j \in Publishers : Writing(j)' => pub'[j].open /\ j = k
    BY <1>2, <1>4 DEF Writing
  <2>5. \A j \in Publishers : pub'[j].pc # "save"
    BY <1>2, <1>4
  <2>6. Last'[Len(Last')] = Stored(k)'
    BY <1>4, <1>8, <1>10, <1>11
  <2>7. \A i \in DOMAIN Last' : (Last')[i].id \notin acked'
    BY <1>3, <1>10, <1>11
  <2>8. Last' # <<>>
    BY <1>10, <1>12
  <2>9. QED
    BY <1>6, <2>1, <2>2, <2>3, <2>4, <2>5, <2>6, <2>7, <2>8 DEF OneAtATime
<1>14. LossesPaid'
  <2>1. ASSUME NEW m \in Lost' PROVE m \in Lost
    <3>1. m \in acked /\ m \notin Readable'
      BY <1>3 DEF Lost
    <3>2. ASSUME NEW i \in Parsed, On(i).id = m PROVE FALSE
      <4>1. ~(i \in Parsed' /\ On(i)' = On(i))
        BY <3>1, <3>2 DEF Readable
      <4>2. log # <<>> /\ i = Len(log) /\ Len(log[i]) = 1
        BY <1>6, <4>1 DEF Parsed
      <4>3. Last[1].id = m /\ 1 \in DOMAIN Last
        BY <1>7, <3>2, <4>2 DEF On, Last
      <4>4. QED
        BY <3>1, <4>2, <4>3 DEF OneAtATime
    <3>3. QED
      BY <3>1, <3>2 DEF Lost, Readable
  <2>2. Spoiled' => Spoiled
    <3>1. ASSUME Spoiled' PROVE Spoiled
      <4>1. \A j \in Publishers : pub'[j].pc # "save"
        BY <1>2, <1>4
      <4>2. Writing(k)'
        BY <1>4 DEF Writing
      <4>3. Len(Last') # 1
        BY <3>1, <4>1, <4>2 DEF Spoiled
      <4>4. log # <<>> /\ Last # <<>>
        BY <1>10, <1>11, <4>3
      <4>5. \A j \in Publishers : ~Writing(j)
        BY <1>1, <1>2 DEF Writing
      <4>6. QED
        BY <4>4, <4>5 DEF Spoiled
    <3>2. QED
      BY <3>1
  <2>3. QED
    BY <1>3, <2>1, <2>2, AccountKept
<1>15. QED
  BY <1>13, <1>14

(* Ending the line: the message can be read now, if it is alone on it.     *)
LEMMA NewlinePaid ==
  ASSUME TypeInv, OneAtATime, LossesPaid, NEW k \in Publishers, Newline(k)
  PROVE  OneAtATime' /\ LossesPaid'
<1>1. Busy(k) /\ pub[k].pc = "newline" /\ Writing(k)
  BY DEF Newline, Busy, Writing
<1>2. /\ dir /\ pub[k].id \notin acked /\ pub[k].open
      /\ \A j \in Publishers : j # k => pub[j].pc = "idle"
  BY <1>1 DEF OneAtATime, Busy
<1>3. /\ UNCHANGED <<dir, clearing, acked, cut>>
      /\ pub' = [pub EXCEPT ![k].pc = "save"] /\ log' = Append(log, <<>>)
  BY <1>2 DEF Newline
<1>4. /\ pub'[k].pc = "save" /\ pub'[k].id = pub[k].id
      /\ \A j \in Publishers : j # k => pub'[j] = pub[j]
  BY <1>1, <1>3, StageMoved DEF Stage
<1>5. log \in Seq(Seq(Entry))
  BY DEF TypeInv, TypeOK
<1>6. log' # <<>> /\ Last' = <<>> /\ Readable' = Readable
  BY <1>3, <1>5, ReadableAfterNewline
<1>7. /\ log # <<>> /\ Last # <<>> /\ Last[Len(Last)] = Stored(k)
  BY <1>1 DEF OneAtATime
<1>8. OneAtATime'
  <2>1. clearing' = {}
    BY <1>3 DEF OneAtATime
  <2>2. \A j \in Publishers : Busy(j)' => j = k
    BY <1>2, <1>4 DEF Busy
  <2>3. dir' /\ pub'[k].id \notin acked'
    BY <1>2, <1>3, <1>4
  <2>4. \A j \in Publishers : ~(Writing(j)')
    BY <1>2, <1>4 DEF Writing
  <2>5. DOMAIN Last' = {}
    BY <1>6
  <2>6. QED
    BY <1>6, <2>1, <2>2, <2>3, <2>4, <2>5 DEF OneAtATime
<1>9. LossesPaid'
  <2>1. Lost' = Lost
    BY <1>3, <1>6 DEF Lost
  <2>2. ASSUME Spoiled' PROVE Spoiled
    <3>1. PICK j \in Publishers : pub'[j].pc = "save" /\ pub'[j].id \notin Readable'
      BY <1>6, <2>2 DEF Spoiled
    <3>2. pub[k].id \notin Readable
      BY <1>2, <1>4, <1>6, <3>1
    <3>3. ASSUME Len(Last) = 1 PROVE FALSE
      <4>1. Len(log) \in DOMAIN log
        BY <1>5, <1>7
      <4>2. Len(log) \in Parsed /\ On(Len(log)) = Stored(k)
        BY <1>7, <3>3, <4>1 DEF Parsed, On, Last
      <4>3. Stored(k).id = pub[k].id
        BY DEF Stored
      <4>4. QED
        BY <3>2, <4>2, <4>3 DEF Readable
    <3>4. QED
      BY <1>7, <3>3 DEF Spoiled
  <2>3. QED
    BY <1>3, <2>1, <2>2, AccountKept
<1>10. QED
  BY <1>8, <1>9

(* Acknowledging: what was going to be lost is lost.                       *)
LEMMA SaveMetaPaid ==
  ASSUME TypeInv, OneAtATime, LossesPaid, NEW k \in Publishers, SaveMeta(k) \/ SaveMetaFails(k)
  PROVE  OneAtATime' /\ LossesPaid'
<1>1. Busy(k) /\ pub[k].pc = "save"
  BY DEF SaveMeta, SaveMetaFails, Busy
<1>2. \A j \in Publishers : j # k => pub[j].pc = "idle"
  BY <1>1 DEF OneAtATime, Busy
<1>3. /\ UNCHANGED <<log, clearing, cut>>
      /\ acked' = acked \cup {pub[k].id} /\ pub' = [pub EXCEPT ![k] = IdlePub]
  BY DEF SaveMeta, SaveMetaFails
<1>4. \A j \in Publishers : pub'[j].pc = "idle"
  BY <1>2, <1>3, IdleTyped, PublisherTyped
<1>5. log # <<>> /\ Last = <<>> /\ Last' = Last
  BY <1>1, <1>3 DEF OneAtATime, Last
<1>6. OneAtATime'
  <2>1. DOMAIN Last' = {}
    BY <1>5
  <2>2. clearing' = {}
    BY <1>3 DEF OneAtATime
  <2>3. \A j \in Publishers : ~(Busy(j)') /\ ~(Writing(j)')
    BY <1>4 DEF Busy, Writing
  <2>4. QED
    BY <1>3, <1>4, <1>5, <2>1, <2>2, <2>3 DEF OneAtATime
<1>7. LossesPaid'
  <2>1. ~(Spoiled')
    BY <1>4, <1>5 DEF Spoiled
  <2>2. Readable' = Readable
    BY <1>3 DEF Readable, Parsed, On
  <2>3. /\ IsFiniteSet(Lost) /\ Cardinality(Lost) \in Nat /\ cut \in Nat
        /\ Cardinality(Lost) + (IF Spoiled THEN 1 ELSE 0) <= cut
    BY LostCounted DEF LossesPaid
  <2>4. Cardinality(Lost') <= cut
    <3>1. CASE pub[k].id \in Readable
      <4>1. Lost' = Lost
        BY <1>3, <2>2, <3>1 DEF Lost
      <4>2. \A a, b \in Nat : \A x \in {0, 1} : a + x <= b => a <= b
        OBVIOUS
      <4>3. (IF Spoiled THEN 1 ELSE 0) \in {0, 1}
        OBVIOUS
      <4>4. QED
        BY <2>3, <4>1, <4>2, <4>3
    <3>2. CASE pub[k].id \notin Readable
      <4>1. Spoiled
        BY <1>1, <3>2 DEF Spoiled
      <4>2. Cardinality(Lost) + 1 <= cut
        BY <2>3, <4>1
      <4>3. Lost' = Lost \cup {pub[k].id}
        BY <1>3, <2>2, <3>2 DEF Lost
      <4>4. Cardinality(Lost') = Cardinality(Lost) \/ Cardinality(Lost') = Cardinality(Lost) + 1
        BY <2>3, <4>3, FS_AddElement
      <4>5. \A a, b \in Nat : a + 1 <= b => a <= b
        OBVIOUS
      <4>6. QED
        BY <2>3, <4>2, <4>4, <4>5
    <3>3. QED
      BY <3>1, <3>2
  <2>5. Cardinality(Lost') \in Nat
    <3>1. Lost' \subseteq Lost \cup {pub[k].id}
      BY <1>3, <2>2 DEF Lost
    <3>2. IsFiniteSet(Lost \cup {pub[k].id})
      BY <2>3, FS_AddElement
    <3>3. QED
      BY <3>1, <3>2, FS_Subset, FS_CardinalityType
  <2>6. Cardinality(Lost') + 0 <= cut
    BY <2>3, <2>4, <2>5
  <2>7. QED
    BY <1>3, <2>1, <2>6 DEF LossesPaid
<1>8. QED
  BY <1>6, <1>7

(* Publications cut short pay for the line they leave behind, if they have *)
(* begun to write one.                                                     *)
LEMMA CutPaid ==
  ASSUME TypeInv, OneAtATime, LossesPaid, UNCHANGED <<dir, log, acked>>, clearing' = {},
         \A j \in Publishers : pub'[j].pc = "idle",
         \/ cut' = cut + 1
         \/ cut' = cut /\ \A j \in Publishers : pub[j].pc \in {"idle", "append"}
  PROVE  OneAtATime' /\ LossesPaid'
<1>1. UNCHANGED <<dir, log, acked>> /\ clearing' = {}
  OBVIOUS
<1>2. \A j \in Publishers : pub'[j].pc = "idle"
  OBVIOUS
<1>3. Last' = Last
  BY <1>1 DEF Last
<1>4. OneAtATime'
  <2>1. \A j \in Publishers : ~(Busy(j)') /\ ~(Writing(j)')
    BY <1>2 DEF Busy, Writing
  <2>2. log' # <<>> => \A i \in DOMAIN Last' : (Last')[i].id \notin acked'
    BY <1>1, <1>3 DEF OneAtATime
  <2>3. QED
    BY <1>1, <1>2, <2>1, <2>2 DEF OneAtATime
<1>5. Lost' = Lost
  BY <1>1 DEF Lost, Readable, Parsed, On
<1>6. LossesPaid'
  <2>1. CASE cut' = cut + 1
    <3>1. cut' = cut + 1
      BY <2>1
    <3>2. Cardinality(Lost) \in Nat /\ cut \in Nat
      BY LostCounted
    <3>3. PICK x : x = (IF Spoiled THEN 1 ELSE 0)
      OBVIOUS
    <3>4. PICK y : y = (IF Spoiled' THEN 1 ELSE 0)
      OBVIOUS
    <3>5. x \in 0..1 /\ y \in 0..1
      BY <3>3, <3>4
    <3>6. Cardinality(Lost) + x <= cut
      BY <3>3 DEF LossesPaid
    <3>7. \A a, b \in Nat : a + x <= b => a + y <= b + 1
      BY <3>5
    <3>8. Cardinality(Lost') + y <= cut'
      BY <1>5, <3>1, <3>2, <3>6, <3>7
    <3>9. QED
      BY <3>4, <3>8 DEF LossesPaid
  <2>2. CASE cut' = cut /\ \A j \in Publishers : pub[j].pc \in {"idle", "append"}
    <3>1. cut' = cut
      BY <2>2
    <3>2. Spoiled' => Spoiled
      BY <1>1, <1>2, <1>3, <2>2 DEF Spoiled, Writing, Busy
    <3>3. QED
      BY <1>5, <3>1, <3>2, AccountKept
  <2>3. QED
    BY <2>1, <2>2
<1>7. QED
  BY <1>4, <1>6

(* Crashes and failed appends are such.                                    *)
LEMMA CrashPaid ==
  ASSUME TypeInv, OneAtATime, LossesPaid, Crash
  PROVE  OneAtATime' /\ LossesPaid'
<1>1. /\ UNCHANGED <<dir, log, acked>> /\ clearing' = {}
      /\ pub' = [k \in Publishers |-> IdlePub]
      /\ cut' = IF \E k \in Publishers : Busy(k) THEN cut + 1 ELSE cut
  BY DEF Crash
<1>2. \A j \in Publishers : pub'[j].pc = "idle"
  BY <1>1, IdleTyped
<1>3. \/ cut' = cut + 1
      \/ cut' = cut /\ \A j \in Publishers : pub[j].pc \in {"idle", "append"}
  BY <1>1 DEF Busy
<1>4. QED
  BY <1>1, <1>2, <1>3, CutPaid

LEMMA AppendFailsPaid ==
  ASSUME TypeInv, OneAtATime, LossesPaid, NEW k \in Publishers, AppendFails(k)
  PROVE  OneAtATime' /\ LossesPaid'
<1>1. Busy(k) /\ pub[k].pc \in {"append", "newline"}
  BY DEF AppendFails, Busy
<1>2. \A j \in Publishers : j # k => pub[j].pc = "idle"
  BY <1>1 DEF OneAtATime, Busy
<1>3. /\ UNCHANGED <<dir, log, acked, clearing>>
      /\ pub' = [pub EXCEPT ![k] = IdlePub]
      /\ cut' = IF pub[k].pc = "newline" THEN cut + 1 ELSE cut
  BY DEF AppendFails, files
<1>4. \A j \in Publishers : pub'[j].pc = "idle"
  BY <1>2, <1>3, IdleTyped, PublisherTyped
<1>5. \/ cut' = cut + 1
      \/ cut' = cut /\ \A j \in Publishers : pub[j].pc \in {"idle", "append"}
  BY <1>1, <1>2, <1>3
<1>6. clearing' = {}
  BY <1>3 DEF OneAtATime
<1>7. QED
  BY <1>3, <1>4, <1>5, <1>6, CutPaid

(* A step that leaves the files, the publishers and what is acknowledged   *)
(* as they are changes nothing here.                                       *)
LEMMA QuietPaid ==
  ASSUME OneAtATime, LossesPaid, UNCHANGED <<dir, log, pub, clearing, acked, cut>>
  PROVE  OneAtATime' /\ LossesPaid'
<1>1. \A j \in Publishers : Busy(j)' = Busy(j) /\ Writing(j)' = Writing(j) /\ Stored(j)' = Stored(j)
  BY DEF Busy, Writing, Stored
<1>2. Last' = Last /\ Readable' = Readable
  BY DEF Last, Readable, Parsed, On
<1>3. OneAtATime'
  BY <1>1, <1>2 DEF OneAtATime
<1>4. LossesPaid'
  <2>1. Lost' = Lost /\ Spoiled' = Spoiled
    BY <1>1, <1>2 DEF Lost, Spoiled
  <2>2. QED
    BY <2>1 DEF LossesPaid
<1>5. QED
  BY <1>3, <1>4

(* Nothing is lost initially.                                              *)
LEMMA InitPaid == Init => LossInv
<1>1. SUFFICES ASSUME Init PROVE OneAtATime /\ LossesPaid
  BY DEF LossInv
<1>2. /\ log = <<>> /\ clearing = {} /\ acked = {} /\ cut = 0
      /\ pub = [k \in Publishers |-> IdlePub]
  BY <1>1 DEF Init
<1>3. \A j \in Publishers : pub[j].pc = "idle" /\ ~Busy(j) /\ ~Writing(j)
  BY <1>2 DEF IdlePub, Busy, Writing
<1>4. OneAtATime
  BY <1>2, <1>3 DEF OneAtATime
<1>5. LossesPaid
  <2>1. Lost = {} /\ ~Spoiled
    BY <1>2, <1>3 DEF Lost, Spoiled
  <2>2. Cardinality(Lost) = 0
    BY <2>1, FS_EmptySet
  <2>3. 0 + 0 <= 0
    OBVIOUS
  <2>4. QED
    BY <1>2, <2>1, <2>2, <2>3 DEF LossesPaid
<1>6. QED
  BY <1>4, <1>5

(* The step, while no publications overlap and nothing is cleared.         *)
LEMMA StepPaid == TypeInv /\ LossInv /\ [Next]_vars => LossInv'
<1>1. SUFFICES ASSUME TypeInv, LossInv, [Next]_vars, ~raced', clears' = 0
               PROVE  OneAtATime' /\ LossesPaid'
  BY DEF LossInv
<1>2. clears \in Nat
  BY <1>1, BusAssumption DEF TypeInv, TypeOK
<1>3. ASSUME ~raced, clears = 0 PROVE OneAtATime /\ LossesPaid
  BY <1>1, <1>3 DEF LossInv
<1>4. CASE UNCHANGED vars
  BY <1>1, <1>3, <1>4, QuietPaid DEF vars, files, mishaps
<1>5. ASSUME NEW k \in Publishers, NEW m \in Unsent, Publish(k, m)
      PROVE  OneAtATime' /\ LossesPaid'
  <2>1. ~raced /\ clears = 0
    BY <1>1, <1>5 DEF Publish, mishaps
  <2>2. m \in Messages \ sent
    BY UnsentIsNew
  <2>3. QED
    BY <1>1, <1>3, <1>5, <2>1, <2>2, PublishPaid
<1>6. ASSUME NEW k \in Publishers, WriteText(k) PROVE OneAtATime' /\ LossesPaid'
  BY <1>1, <1>3, <1>6, WriteTextPaid DEF WriteText, mishaps
<1>7. ASSUME NEW k \in Publishers, Newline(k) PROVE OneAtATime' /\ LossesPaid'
  BY <1>1, <1>3, <1>7, NewlinePaid DEF Newline, mishaps
<1>8. ASSUME NEW k \in Publishers, SaveMeta(k) \/ SaveMetaFails(k)
      PROVE  OneAtATime' /\ LossesPaid'
  BY <1>1, <1>3, <1>8, SaveMetaPaid DEF SaveMeta, SaveMetaFails, mishaps
<1>15. ASSUME NEW k \in Publishers, AppendFails(k) PROVE OneAtATime' /\ LossesPaid'
  BY <1>1, <1>3, <1>15, AppendFailsPaid DEF AppendFails
<1>9. ~Clear
  <2>1. \A n \in Nat : n + 1 # 0
    OBVIOUS
  <2>2. QED
    BY <1>1, <1>2, <2>1 DEF Clear
<1>10. ~(RemoveLog \/ RemoveMeta \/ RemoveDir)
  BY <1>1, <1>3 DEF RemoveLog, RemoveMeta, RemoveDir, mishaps, OneAtATime
<1>11. ASSUME NEW c \in Consumers, Poll(c) PROVE OneAtATime' /\ LossesPaid'
  BY <1>1, <1>3, <1>11, QuietPaid DEF Poll, files, mishaps
<1>12. ASSUME NEW m \in Messages, Expire(m) PROVE OneAtATime' /\ LossesPaid'
  BY <1>1, <1>3, <1>12, QuietPaid DEF Expire, files, mishaps
<1>13. CASE Crash
  BY <1>1, <1>3, <1>13, CrashPaid DEF Crash
<1>14. QED
  BY <1>1, <1>4, <1>5, <1>6, <1>7, <1>8, <1>9, <1>10, <1>11, <1>12, <1>13,
     <1>15 DEF Next

(* Until publications overlap or the topic is cleared, a crash or a failed *)
(* newline makes at most one acknowledged message unreadable, however many *)
(* are published before and after it and whichever write it cuts short:    *)
(* the one that ends up on the line it left behind (publish).              *)
THEOREM DamageBounded == Spec => []DamageBound
<1>1. TypeInv /\ LossInv => DamageBound
  <2>1. SUFFICES ASSUME TypeInv, LossInv, ~raced, clears = 0
                 PROVE  Cardinality(acked \ Readable) <= cut
    BY DEF DamageBound
  <2>2. Cardinality(Lost) + (IF Spoiled THEN 1 ELSE 0) <= cut
    BY <2>1 DEF LossInv, LossesPaid
  <2>3. Cardinality(Lost) \in Nat /\ cut \in Nat
    BY <2>1, LostCounted
  <2>4. \A a, b \in Nat : \A x \in {0, 1} : a + x <= b => a <= b
    OBVIOUS
  <2>5. (IF Spoiled THEN 1 ELSE 0) \in {0, 1}
    OBVIOUS
  <2>6. Cardinality(Lost) <= cut
    BY <2>2, <2>3, <2>4, <2>5
  <2>7. QED
    BY <2>6 DEF Lost
<1>2. QED
  BY <1>1, InitTyped, StepTyped, InitPaid, StepPaid, PTL DEF Spec

-----------------------------------------------------------------------------
(* While nothing at all disturbs the topic, numbers grow along the log.    *)
(* Tip is the highest one given to a message that has been written.        *)
Tip == IF \E k \in Publishers : pub[k].pc \in {"newline", "save"} THEN meta + 1 ELSE meta

InOrder ==
  /\ \A i, j \in Parsed : i < j => On(i).seq < On(j).seq
  /\ \A i \in Parsed : On(i).seq <= Tip
  /\ \A k \in Publishers : Busy(k) => pub[k].seq = meta + 1
  /\ \A c \in Consumers : since[c] <= Tip

(* Behind a cursor there is nothing that was not given out or expired.     *)
CursorSound ==
  \A c \in Consumers : \A i \in Parsed :
    On(i).seq <= since[c] => On(i).id \in received[c] \cup expired

Ordered == InOrder /\ CursorSound

OrderInv == ~Disturbed => Ordered

(* Numbers are naturals.                                                   *)
LEMMA NumbersTyped ==
  ASSUME TypeInv
  PROVE  /\ meta \in Nat /\ Tip \in Nat
         /\ \A c \in Consumers : since[c] \in Nat
         /\ \A i \in Parsed : i \in Nat /\ On(i).seq \in Nat
<1>1. Cardinality(Messages) \in Nat
  BY SentCounted DEF TypeInv
<1>2. meta \in Nat
  BY <1>1 DEF TypeInv, TypeOK
<1>3. Tip \in Nat
  BY <1>2 DEF Tip
<1>4. \A c \in Consumers : since[c] \in Nat
  BY <1>1 DEF TypeInv, TypeOK
<1>5. \A i \in Parsed : i \in Nat /\ On(i).seq \in Nat
  BY <1>1, ParsedTyped DEF TypeInv, TypeOK
<1>6. QED
  BY <1>2, <1>3, <1>4, <1>5

(* A step that leaves the log and the cursors, may take more messages as   *)
(* expired and keeps the tip, keeps the order.                             *)
LEMMA OrderKept ==
  ASSUME Ordered, UNCHANGED <<log, since, received>>, expired \subseteq expired', Tip' = Tip,
         \A k \in Publishers : Busy(k)' => pub'[k].seq = meta' + 1
  PROVE  Ordered'
<1>1. Parsed' = Parsed /\ \A i \in Parsed : On(i)' = On(i)
  BY DEF Parsed, On
<1>2. InOrder'
  BY <1>1 DEF Ordered, InOrder
<1>3. CursorSound'
  BY <1>1 DEF Ordered, CursorSound
<1>4. QED
  BY <1>2, <1>3 DEF Ordered

(* Publishing takes the number after the last one.                         *)
LEMMA PublishOrdered ==
  ASSUME TypeInv, Ordered, ~raced', NEW k \in Publishers, NEW m \in Messages, Publish(k, m)
  PROVE  Ordered'
<1>1. /\ UNCHANGED <<log, meta, since, received, expired>>
      /\ \A j \in Publishers : ~Busy(j)
  BY DEF Publish, readers
<1>2. PICK last \in LoadedMeta(k) :
        pub' = [pub EXCEPT ![k] = [pc |-> "append", id |-> m, seq |-> last + 1, open |-> FALSE]]
  BY DEF Publish
<1>3. last = meta
  BY <1>1, <1>2 DEF LoadedMeta, Busy
<1>4. /\ pub'[k].pc = "append" /\ pub'[k].seq = meta' + 1
      /\ \A j \in Publishers : j # k => pub'[j] = pub[j] /\ ~(Busy(j)')
  BY <1>1, <1>2, <1>3, PublisherTyped DEF Busy
<1>5. Tip' = Tip
  <2>1. \A j \in Publishers : pub[j].pc \notin {"newline", "save"}
    BY <1>1 DEF Busy
  <2>2. \A j \in Publishers : pub'[j].pc \notin {"newline", "save"}
    BY <1>4, <2>1
  <2>3. QED
    BY <1>1, <2>1, <2>2 DEF Tip
<1>6. \A j \in Publishers : Busy(j)' => pub'[j].seq = meta' + 1
  BY <1>4
<1>7. QED
  BY <1>1, <1>5, <1>6, OrderKept

(* Its line is the last of the log, and its number the highest.            *)
LEMMA WriteTextOrdered ==
  ASSUME TypeInv, OneAtATime, ~Spoiled, Ordered, NEW k \in Publishers, WriteText(k)
  PROVE  Ordered'
<1>1. Busy(k) /\ pub[k].pc = "append"
  BY DEF WriteText, Busy
<1>2. dir /\ \A j \in Publishers : j # k => pub[j].pc = "idle"
  BY <1>1 DEF OneAtATime, Busy
<1>3. /\ UNCHANGED <<meta, since, received, expired>>
      /\ pub' = [pub EXCEPT ![k].pc = "newline", ![k].open = TRUE]
      /\ log' = IF log = <<>> THEN <<<<Stored(k)>>>>
                ELSE [log EXCEPT ![Len(log)] = Append(@, Stored(k))]
  BY <1>2 DEF WriteText, readers
<1>4. /\ pub'[k].pc = "newline" /\ pub'[k].seq = pub[k].seq
      /\ \A j \in Publishers : j # k => pub'[j] = pub[j]
  <2>1. "newline" \in Stage /\ TRUE \in BOOLEAN
    BY DEF Stage
  <2>2. QED
    BY <1>1, <1>3, <2>1, MovedOn
<1>5. log \in Seq(Seq(Entry)) /\ Stored(k) \in Entry
  BY <1>1, PublisherTyped DEF TypeInv, TypeOK
<1>6. log = <<>> \/ Last = <<>>
  <2>1. \A j \in Publishers : ~Writing(j)
    BY <1>1, <1>2 DEF Writing
  <2>2. QED
    BY <2>1 DEF Spoiled
<1>7. PICK n : n = Len(log')
  OBVIOUS
<1>8. /\ On(Len(log))' = Stored(k)
      /\ \A i \in Parsed : i \in Parsed' /\ On(i)' = On(i) /\ i < n
      /\ \A i \in Parsed' : \/ i \in Parsed
                            \/ i = n
  BY <1>3, <1>5, <1>6, <1>7, ReadableAfterText
<1>9. PICK e : e = Stored(k)
  OBVIOUS
<1>10. e.seq = meta + 1 /\ meta \in Nat
  BY <1>1, <1>9, NumbersTyped DEF Stored, Ordered, InOrder
<1>11. Tip = meta /\ Tip' = meta + 1
  <2>1. \A j \in Publishers : pub[j].pc \notin {"newline", "save"}
    BY <1>1, <1>2
  <2>2. QED
    BY <1>3, <1>4, <2>1 DEF Tip
<1>12. \A i \in Parsed' : \/ i \in Parsed /\ i < n /\ On(i)' = On(i)
                          \/ i = n /\ On(i)' = e
  <2>1. On(Len(log))' = log'[n][1]
    BY <1>7 DEF On
  <2>2. \A i \in Parsed' : On(i)' = log'[i][1]
    BY DEF On
  <2>3. QED
    BY <1>8, <1>9, <2>1, <2>2
<1>13. \A i \in Parsed : On(i).seq \in Nat /\ On(i).seq <= meta /\ i \in Nat
  BY <1>11, NumbersTyped DEF Ordered, InOrder
<1>14. \A s \in Nat : s <= meta => s < meta + 1 /\ s <= meta + 1
  BY <1>10
<1>15. n \in Nat
  BY <1>3, <1>5, <1>7, TextWritten
<1>16. InOrder'
  <2>1. ASSUME NEW i \in Parsed', NEW j \in Parsed', i < j
        PROVE  On(i)'.seq < On(j)'.seq
    <3>1. CASE i = n
      <4>1. j \in Nat /\ (j < n \/ j = n)
        BY <1>12, <1>13, <1>15
      <4>2. \A x, y \in Nat : x < y => ~(y < x) /\ y # x
        OBVIOUS
      <4>3. QED
        BY <1>15, <2>1, <3>1, <4>1, <4>2
    <3>2. CASE i # n
      <4>1. i \in Parsed /\ On(i)' = On(i)
        BY <1>12, <3>2
      <4>2. CASE j = n /\ On(j)' = e
        BY <1>10, <1>13, <1>14, <4>1, <4>2
      <4>3. CASE j \in Parsed /\ On(j)' = On(j)
        BY <2>1, <4>1, <4>3 DEF Ordered, InOrder
      <4>4. QED
        BY <1>12, <4>2, <4>3
    <3>3. QED
      BY <3>1, <3>2
  <2>2. ASSUME NEW i \in Parsed' PROVE On(i)'.seq <= Tip'
    <3>1. CASE i \in Parsed /\ On(i)' = On(i)
      BY <1>11, <1>13, <1>14, <3>1
    <3>2. CASE On(i)' = e
      BY <1>10, <1>11, <3>2
    <3>3. QED
      BY <1>12, <3>1, <3>2
  <2>3. \A j \in Publishers : Busy(j)' => pub'[j].seq = meta' + 1
    BY <1>1, <1>2, <1>3, <1>4 DEF Ordered, InOrder, Busy
  <2>4. \A c \in Consumers : since'[c] <= Tip'
    <3>1. \A c \in Consumers : since[c] \in Nat /\ since[c] <= meta
      BY <1>11, NumbersTyped DEF Ordered, InOrder
    <3>2. QED
      BY <1>3, <1>11, <1>14, <3>1
  <2>5. QED
    BY <2>1, <2>2, <2>3, <2>4 DEF InOrder
<1>17. CursorSound'
  <2>1. ASSUME NEW c \in Consumers, NEW i \in Parsed', On(i)'.seq <= since'[c]
        PROVE  On(i)'.id \in received'[c] \cup expired'
    <3>1. CASE i \in Parsed /\ On(i)' = On(i)
      BY <1>3, <2>1, <3>1 DEF Ordered, CursorSound
    <3>2. CASE On(i)' = e
      <4>1. since[c] \in Nat /\ since[c] <= meta
        BY <1>11, NumbersTyped DEF Ordered, InOrder
      <4>2. ~(meta + 1 <= since[c])
        BY <1>10, <4>1
      <4>3. QED
        BY <1>3, <1>10, <2>1, <3>2, <4>2
    <3>3. QED
      BY <1>12, <3>1, <3>2
  <2>2. QED
    BY <2>1 DEF CursorSound
<1>18. QED
  BY <1>16, <1>17 DEF Ordered

(* Ending the line changes no order.                                       *)
LEMMA NewlineOrdered ==
  ASSUME TypeInv, OneAtATime, Ordered, NEW k \in Publishers, Newline(k)
  PROVE  Ordered'
<1>1. Busy(k) /\ pub[k].pc = "newline"
  BY DEF Newline, Busy
<1>2. pub[k].open /\ \A j \in Publishers : j # k => pub[j].pc = "idle"
  BY <1>1 DEF OneAtATime, Busy, Writing
<1>3. /\ UNCHANGED <<meta, since, received, expired>>
      /\ pub' = [pub EXCEPT ![k].pc = "save"] /\ log' = Append(log, <<>>)
  BY <1>2 DEF Newline, readers
<1>4. /\ pub'[k].pc = "save" /\ pub'[k].seq = pub[k].seq
      /\ \A j \in Publishers : j # k => pub'[j] = pub[j]
  BY <1>1, <1>3, StageMoved DEF Stage
<1>5. log \in Seq(Seq(Entry))
  BY DEF TypeInv, TypeOK
<1>6. Parsed' = Parsed /\ \A i \in Parsed : On(i)' = On(i)
  BY <1>3, <1>5, ReadableAfterNewline
<1>7. Tip' = Tip
  BY <1>1, <1>3, <1>4 DEF Tip
<1>8. \A j \in Publishers : Busy(j)' => pub'[j].seq = meta' + 1
  BY <1>1, <1>3, <1>4 DEF Ordered, InOrder, Busy
<1>9. InOrder'
  BY <1>3, <1>6, <1>7, <1>8 DEF Ordered, InOrder
<1>10. CursorSound'
  BY <1>3, <1>6 DEF Ordered, CursorSound
<1>11. QED
  BY <1>9, <1>10 DEF Ordered

(* The number saved is that of the last message written.                   *)
LEMMA SaveMetaOrdered ==
  ASSUME TypeInv, OneAtATime, Ordered, NEW k \in Publishers, SaveMeta(k)
  PROVE  Ordered'
<1>1. Busy(k) /\ pub[k].pc = "save"
  BY DEF SaveMeta, Busy
<1>2. \A j \in Publishers : j # k => pub[j].pc = "idle"
  BY <1>1 DEF OneAtATime, Busy
<1>3. /\ UNCHANGED <<log, since, received, expired>>
      /\ meta' = pub[k].seq /\ pub' = [pub EXCEPT ![k] = IdlePub]
  BY DEF SaveMeta, readers
<1>4. \A j \in Publishers : pub'[j].pc = "idle"
  BY <1>2, <1>3, IdleTyped, PublisherTyped
<1>5. Tip = meta + 1 /\ Tip' = meta + 1
  <2>1. pub[k].seq = meta + 1
    BY <1>1 DEF Ordered, InOrder
  <2>2. Tip = meta + 1
    BY <1>1 DEF Tip
  <2>3. Tip' = meta'
    BY <1>4 DEF Tip
  <2>4. QED
    BY <1>3, <2>1, <2>2, <2>3
<1>6. \A j \in Publishers : ~(Busy(j)')
  BY <1>4 DEF Busy
<1>7. QED
  BY <1>3, <1>5, <1>6, OrderKept

(* A poll leaves nothing behind its cursor: whatever has a number between  *)
(* the old cursor and the new one comes before the line that gave the new  *)
(* one, and so was within the limit.                                       *)
LEMMA PollOrdered ==
  ASSUME TypeInv, Ordered, NEW c \in Consumers, Poll(c)
  PROVE  Ordered'
<1>1. UNCHANGED <<log, meta, pub, expired>>
  BY DEF Poll, files
<1>2. PICK p \in Fresh(c) :
        /\ since' = [since EXCEPT ![c] = On(p).seq]
        /\ \A i \in Fresh(c) : On(i).seq <= On(p).seq
        /\ received' = [received EXCEPT ![c] = @ \cup {On(i).id : i \in Fresh(c)}]
        /\ Fresh(c) \subseteq Ahead(c) /\ Ahead(c) \subseteq Parsed
  BY PollGives DEF TypeInv
<1>3. Parsed' = Parsed /\ \A i \in Parsed : On(i)' = On(i)
  BY <1>1 DEF Parsed, On
<1>4. since \in [Consumers -> 0..Cardinality(Messages)] /\ received \in [Consumers -> SUBSET Messages]
  BY DEF TypeInv, TypeOK
<1>5. /\ since'[c] = On(p).seq /\ received'[c] = received[c] \cup {On(i).id : i \in Fresh(c)}
      /\ \A d \in Consumers : d # c => since'[d] = since[d] /\ received'[d] = received[d]
  BY <1>2, <1>4
<1>6. Tip' = Tip
  BY <1>1 DEF Tip
<1>7. InOrder'
  <2>1. On(p).seq <= Tip
    BY <1>2 DEF Ordered, InOrder
  <2>2. \A d \in Consumers : since'[d] <= Tip
    BY <1>5, <2>1 DEF Ordered, InOrder
  <2>3. QED
    BY <1>1, <1>3, <1>6, <2>2 DEF Ordered, InOrder, Busy
<1>8. ASSUME NEW i \in Parsed, On(i).seq <= On(p).seq
      PROVE  On(i).id \in received'[c] \cup expired'
  <2>1. CASE On(i).seq <= since[c] \/ On(i).id \in expired
    BY <1>1, <1>5, <2>1 DEF Ordered, CursorSound
  <2>2. CASE ~(On(i).seq <= since[c]) /\ On(i).id \notin expired
    <3>1. On(i).seq > since[c]
      <4>1. \A x, y \in Nat : ~(x <= y) => x > y
        OBVIOUS
      <4>2. QED
        BY <2>2, <4>1, NumbersTyped
    <3>2. i \in Ahead(c)
      BY <2>2, <3>1 DEF Ahead
    <3>3. p \in Parsed /\ p \in Nat /\ i \in Nat
      BY <1>2, NumbersTyped
    <3>4. i <= p
      <4>1. ~(p < i)
        <5>1. p < i => On(p).seq < On(i).seq
          BY <3>3 DEF Ordered, InOrder
        <5>2. On(p).seq \in Nat /\ On(i).seq \in Nat
          BY <3>3, NumbersTyped
        <5>3. \A x, y \in Nat : x <= y => ~(y < x)
          OBVIOUS
        <5>4. QED
          BY <1>8, <5>1, <5>2, <5>3
      <4>2. \A x, y \in Nat : ~(y < x) => x <= y
        OBVIOUS
      <4>3. QED
        BY <3>3, <4>1, <4>2
    <3>5. i \in Fresh(c)
      <4>1. PICK S : S = {j \in Ahead(c) : j <= i}
        OBVIOUS
      <4>2. PICK T : T = {j \in Ahead(c) : j <= p}
        OBVIOUS
      <4>3. Cardinality(T) <= Limit
        BY <1>2, <4>2 DEF Fresh, First
      <4>4. S \subseteq T
        <5>1. \A x, y, z \in Nat : x <= y /\ y <= z => x <= z
          OBVIOUS
        <5>2. \A j \in Ahead(c) : j \in Nat
          BY <1>2, NumbersTyped
        <5>3. QED
          BY <3>3, <3>4, <4>1, <4>2, <5>1, <5>2
      <4>5. IsFiniteSet(T)
        <5>1. T \subseteq Parsed
          BY <1>2, <4>2
        <5>2. QED
          BY <5>1, ParsedTyped, FS_Subset DEF TypeInv, TypeOK
      <4>6. /\ Cardinality(S) <= Cardinality(T)
            /\ Cardinality(S) \in Nat /\ Cardinality(T) \in Nat
        BY <4>4, <4>5, FS_Subset, FS_CardinalityType
      <4>7. \A x, y, z \in Nat : x <= y /\ y <= z => x <= z
        OBVIOUS
      <4>8. Cardinality(S) <= Limit
        BY <4>3, <4>6, <4>7, BusAssumption
      <4>9. QED
        BY <3>2, <4>1, <4>8 DEF Fresh, First
    <3>6. QED
      BY <1>5, <3>5
  <2>3. QED
    BY <2>1, <2>2
<1>9. CursorSound'
  <2>1. ASSUME NEW d \in Consumers, NEW i \in Parsed, On(i).seq <= since'[d]
        PROVE  On(i).id \in received'[d] \cup expired'
    <3>1. CASE d = c
      BY <1>5, <1>8, <2>1, <3>1
    <3>2. CASE d # c
      BY <1>1, <1>5, <2>1, <3>2 DEF Ordered, CursorSound
    <3>3. QED
      BY <3>1, <3>2
  <2>2. QED
    BY <1>3, <2>1 DEF CursorSound
<1>10. QED
  BY <1>7, <1>9 DEF Ordered

(* Initially there is nothing to be in order.                              *)
LEMMA InitOrdered == Init => OrderInv
<1>1. SUFFICES ASSUME Init PROVE Ordered
  BY DEF OrderInv
<1>2. /\ log = <<>> /\ meta = 0 /\ since = [c \in Consumers |-> 0]
      /\ pub = [k \in Publishers |-> IdlePub]
  BY <1>1 DEF Init
<1>3. Parsed = {}
  BY <1>2 DEF Parsed
<1>4. \A j \in Publishers : pub[j].pc = "idle" /\ ~Busy(j)
  BY <1>2 DEF IdlePub, Busy
<1>5. Tip = 0
  BY <1>2, <1>4 DEF Tip
<1>6. \A c \in Consumers : since[c] <= Tip
  BY <1>2, <1>5
<1>7. QED
  BY <1>3, <1>4, <1>6 DEF Ordered, InOrder, CursorSound

(* The step, while nothing disturbs the topic.                             *)
LEMMA StepOrdered == TypeInv /\ LossInv /\ OrderInv /\ [Next]_vars => OrderInv'
<1>1. SUFFICES ASSUME TypeInv, LossInv, OrderInv, [Next]_vars, ~(Disturbed')
               PROVE  Ordered'
  BY DEF OrderInv
<1>2. clears \in Nat /\ cut \in Nat
  BY <1>1, LostCounted, BusAssumption DEF TypeInv, TypeOK
<1>3. ~raced' /\ ~unsaved' /\ ~(clears' > 0) /\ ~(cut' > 0)
  BY <1>1 DEF Disturbed
<1>4. ASSUME ~raced, unsaved' = unsaved, clears' = clears, cut' = cut
      PROVE  Ordered /\ OneAtATime /\ ~Spoiled
  <2>1. ~Disturbed
    BY <1>3, <1>4 DEF Disturbed
  <2>2. clears = 0 /\ cut = 0
    <3>1. \A n \in Nat : ~(n > 0) => n = 0
      OBVIOUS
    <3>2. QED
      BY <1>2, <1>3, <1>4, <3>1
  <2>3. OneAtATime /\ LossesPaid
    BY <1>1, <1>4, <2>2 DEF LossInv
  <2>4. ~Spoiled
    <3>1. ASSUME Spoiled PROVE FALSE
      <4>1. Cardinality(Lost) + 1 <= 0
        BY <2>2, <2>3, <3>1 DEF LossesPaid
      <4>2. Cardinality(Lost) \in Nat
        BY <1>1, LostCounted
      <4>3. \A n \in Nat : ~(n + 1 <= 0)
        OBVIOUS
      <4>4. QED
        BY <4>1, <4>2, <4>3
    <3>2. QED
      BY <3>1
  <2>5. QED
    BY <1>1, <2>1, <2>3, <2>4 DEF OrderInv
<1>5. CASE UNCHANGED vars
  <2>1. /\ UNCHANGED <<log, meta, pub, since, received, expired, raced, unsaved, clears, cut>>
    BY <1>5 DEF vars, files, readers, mishaps
  <2>2. Ordered
    BY <1>3, <1>4, <2>1
  <2>3. Tip' = Tip
    BY <2>1 DEF Tip
  <2>4. \A j \in Publishers : Busy(j)' => pub'[j].seq = meta' + 1
    BY <2>1, <2>2 DEF Ordered, InOrder, Busy
  <2>5. QED
    BY <2>1, <2>2, <2>3, <2>4, OrderKept
<1>6. ASSUME NEW k \in Publishers, NEW m \in Unsent, Publish(k, m) PROVE Ordered'
  <2>1. ~raced /\ unsaved' = unsaved /\ clears' = clears /\ cut' = cut
    BY <1>3, <1>6 DEF Publish, mishaps
  <2>2. QED
    BY <1>1, <1>3, <1>4, <1>6, <2>1, UnsentIsNew, PublishOrdered
<1>7. ASSUME NEW k \in Publishers, WriteText(k) PROVE Ordered'
  BY <1>1, <1>3, <1>4, <1>7, WriteTextOrdered DEF WriteText, mishaps
<1>8. ASSUME NEW k \in Publishers, Newline(k) PROVE Ordered'
  BY <1>1, <1>3, <1>4, <1>8, NewlineOrdered DEF Newline, mishaps
<1>9. ASSUME NEW k \in Publishers, SaveMeta(k) PROVE Ordered'
  BY <1>1, <1>3, <1>4, <1>9, SaveMetaOrdered DEF SaveMeta, mishaps
<1>10. ~Clear
  <2>1. \A n \in Nat : n + 1 > 0
    OBVIOUS
  <2>2. QED
    BY <1>2, <1>3, <2>1 DEF Clear
<1>11. ~(RemoveLog \/ RemoveMeta \/ RemoveDir)
  BY <1>3, <1>4 DEF RemoveLog, RemoveMeta, RemoveDir, mishaps, OneAtATime
<1>12. ASSUME NEW c \in Consumers, Poll(c) PROVE Ordered'
  BY <1>1, <1>3, <1>4, <1>12, PollOrdered DEF Poll, mishaps
<1>13. ASSUME NEW m \in Messages, Expire(m) PROVE Ordered'
  <2>1. /\ UNCHANGED <<log, meta, pub, since, received, raced, unsaved, clears, cut>>
        /\ expired \subseteq expired'
    BY <1>13 DEF Expire, files, readers, mishaps
  <2>2. Ordered
    BY <1>3, <1>4, <2>1
  <2>3. Tip' = Tip
    BY <2>1 DEF Tip
  <2>4. \A j \in Publishers : Busy(j)' => pub'[j].seq = meta' + 1
    BY <2>1, <2>2 DEF Ordered, InOrder, Busy
  <2>5. QED
    BY <2>1, <2>2, <2>3, <2>4, OrderKept
<1>14. CASE Crash
  <2>1. ~ \E k \in Publishers : Busy(k)
    <3>1. \A n \in Nat : n + 1 > 0
      OBVIOUS
    <3>2. QED
      BY <1>2, <1>3, <1>14, <3>1 DEF Crash
  <2>2. \A j \in Publishers : pub[j].pc = "idle"
    BY <2>1 DEF Busy
  <2>3. /\ UNCHANGED <<log, meta, since, received, expired, raced, unsaved, clears, cut>>
        /\ pub' = [k \in Publishers |-> IdlePub]
    BY <1>14, <2>1, <2>2 DEF Crash, readers
  <2>4. \A j \in Publishers : pub'[j].pc = "idle" /\ ~(Busy(j)')
    BY <2>3 DEF IdlePub, Busy
  <2>5. Tip' = Tip
    BY <2>2, <2>3, <2>4 DEF Tip
  <2>6. Ordered
    BY <1>3, <1>4, <2>3
  <2>7. QED
    BY <2>3, <2>4, <2>5, <2>6, OrderKept
<1>16. ASSUME NEW k \in Publishers, SaveMetaFails(k) PROVE FALSE
  BY <1>3, <1>16 DEF SaveMetaFails
<1>17. ASSUME NEW k \in Publishers, AppendFails(k) PROVE Ordered'
  <2>1. Busy(k) /\ pub[k].pc = "append" /\ cut' = cut
    <3>1. \A n \in Nat : n + 1 > 0
      OBVIOUS
    <3>2. pub[k].pc \in {"append", "newline"} /\ cut' = IF pub[k].pc = "newline" THEN cut + 1 ELSE cut
      BY <1>17 DEF AppendFails
    <3>3. QED
      BY <1>2, <1>3, <3>1, <3>2 DEF Busy
  <2>2. /\ UNCHANGED <<log, meta, since, received, expired, raced, unsaved, clears>>
        /\ pub' = [pub EXCEPT ![k] = IdlePub]
    BY <1>17 DEF AppendFails, files, readers
  <2>3. Ordered /\ OneAtATime
    BY <1>3, <1>4, <2>1, <2>2
  <2>4. \A j \in Publishers : j # k => pub[j].pc = "idle"
    BY <2>1, <2>3 DEF OneAtATime, Busy
  <2>5. \A j \in Publishers : pub'[j].pc = "idle" /\ ~(Busy(j)')
    BY <1>1, <2>2, <2>4, IdleTyped, PublisherTyped DEF Busy
  <2>6. \A j \in Publishers : pub[j].pc \notin {"newline", "save"}
    BY <2>1, <2>4
  <2>7. Tip' = Tip
    BY <2>2, <2>5, <2>6 DEF Tip
  <2>8. QED
    BY <2>2, <2>3, <2>5, <2>7, OrderKept
<1>15. QED
  BY <1>1, <1>5, <1>6, <1>7, <1>8, <1>9, <1>10, <1>11, <1>12, <1>13, <1>14, <1>16, <1>17 DEF Next

(* A consumer that goes on from the highest number it was given misses no  *)
(* acknowledged message that has not expired, whatever the limit of its    *)
(* polls and however the publications and the polls interleave: until      *)
(* publications overlap, the topic is cleared, a crash or a failed newline *)
(* cuts one short or the meta file is not saved (publish, save_meta, poll).*)
THEOREM CursorsSkipNothing == Spec => []NothingSkipped
<1>1. TypeInv /\ LossInv /\ OrderInv => NothingSkipped
  <2>1. SUFFICES ASSUME TypeInv, LossInv, OrderInv, ~Disturbed,
                        NEW c \in Consumers, NEW m \in acked \ (received[c] \cup expired)
                 PROVE  \E i \in Parsed : On(i).id = m /\ On(i).seq > since[c]
    BY DEF NothingSkipped
  <2>2. clears = 0 /\ cut = 0 /\ ~raced
    <3>1. \A n \in Nat : ~(n > 0) => n = 0
      OBVIOUS
    <3>2. clears \in Nat /\ cut \in Nat
      BY <2>1, LostCounted, BusAssumption DEF TypeInv, TypeOK
    <3>3. QED
      BY <2>1, <3>1, <3>2 DEF Disturbed
  <2>3. IsFiniteSet(Lost) /\ Cardinality(Lost) = 0
    <3>1. Cardinality(Lost) + (IF Spoiled THEN 1 ELSE 0) <= 0
      BY <2>1, <2>2 DEF LossInv, LossesPaid
    <3>2. IsFiniteSet(Lost) /\ Cardinality(Lost) \in Nat
      BY <2>1, LostCounted
    <3>3. \A n \in Nat : \A x \in {0, 1} : n + x <= 0 => n = 0
      OBVIOUS
    <3>4. (IF Spoiled THEN 1 ELSE 0) \in {0, 1}
      OBVIOUS
    <3>5. QED
      BY <3>1, <3>2, <3>3, <3>4
  <2>4. Lost = {}
    BY <2>3, FS_EmptySet
  <2>5. PICK i \in Parsed : On(i).id = m
    BY <2>1, <2>4 DEF Lost, Readable
  <2>6. ~(On(i).seq <= since[c])
    BY <2>1, <2>5 DEF OrderInv, Ordered, CursorSound
  <2>7. On(i).seq \in Nat /\ since[c] \in Nat
    BY <2>1, NumbersTyped
  <2>8. \A x, y \in Nat : ~(x <= y) => x > y
    OBVIOUS
  <2>9. QED
    BY <2>5, <2>6, <2>7, <2>8
<1>2. QED
  BY <1>1, InitTyped, StepTyped, InitPaid, StepPaid, InitOrdered, StepOrdered, PTL DEF Spec
=============================================================================
