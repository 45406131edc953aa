----------------------------- MODULE MemoryStore -----------------------------
(***************************************************************************)
(* The memory of one agent: a key-value file that every request loads,     *)
(* changes and writes whole.  An entry with a time to live counts it from  *)
(* created_at, which a put over an entry that is still alive keeps.  Only  *)
(* a put removes expired entries from the file; readers skip them.         *)
(* Values are the numbers of the requests that put them; tags, texts and   *)
(* embeddings, and with them the search's ranking, are left out.           *)
(***************************************************************************)
EXTENDS Naturals, FiniteSets, Functions

CONSTANTS
  Keys, Tasks,
  TTLs,     \* the times to live that are put, Forever among them: no ttl_secs
  Forever,  \* more than twice MaxTime
  MaxTime, MaxOps, MaxCrashes

VARIABLES
  store,   \* the file: an entry for each key it holds
  client,  \* what each task is about to write
  now,
  kept,    \* history: what the requests that have returned leave behind
  ops, uncrashed,  \* bounds: requests so far, crashes left
  mixed    \* history: two requests overlapped, or one died while it wrote

mvars == <<store, client, now, kept, ops, uncrashed, mixed>>

Entry == [value: 1..MaxOps, created: 0..MaxTime, ttl: TTLs]
Stores == UNION {[ks -> Entry] : ks \in SUBSET Keys}
Blank == [k \in {} |-> 0]
NoClient == [pc |-> "idle", key |-> {}, put |-> Blank, copy |-> Blank]
Saving == {c \in Tasks : client[c].pc = "save"}

(* is_expired.                                                             *)
Expired(e, t) == t >= e.created + e.ttl

(* prune_expired, and what the readers of the file see of it.              *)
Live(s, t) == Restrict(s, {k \in DOMAIN s : ~Expired(s[k], t)})

MInit ==
  /\ store = Blank /\ kept = Blank
  /\ client = [c \in Tasks |-> NoClient]
  /\ now = 0 /\ ops = 0 /\ uncrashed = MaxCrashes /\ mixed = FALSE

(* load_store: a file that is being rewritten may not parse.               *)
Stored == {store} \cup (IF Saving = {} THEN {} ELSE {Blank})

(* Mutant of With: every put begins a new life.                            *)
With_Fresh(s, k, v, ttl, t) ==
  [x \in DOMAIN s \cup {k} |->
     IF x = k THEN [value |-> v, ttl |-> ttl, created |-> t] ELSE s[x]]

(* The entry of put_memory_with_embedding, over what is alive.             *)
With(s, k, v, ttl, t) ==
  [x \in DOMAIN s \cup {k} |->
     IF x = k THEN [value |-> v, ttl |-> ttl,
                    created |-> IF k \in DOMAIN s THEN s[k].created ELSE t]
     ELSE s[x]]

-----------------------------------------------------------------------------
Put(c, k, ttl) ==
  /\ client[c].pc = "idle" /\ ops < MaxOps
  /\ ops' = ops + 1
  /\ \E s \in Stored :
       client' = [client EXCEPT ![c] =
         [pc |-> "save", key |-> {k},
          put |-> [x \in {k} |-> [value |-> ops', ttl |-> ttl, created |-> now]],
          copy |-> With(Live(s, now), k, ops', ttl, now)]]
  /\ mixed' = (mixed \/ Saving # {})
  /\ UNCHANGED <<store, now, kept, uncrashed>>

(* delete_memory: a key that is not there is not written about.            *)
Remove(c, k) ==
  /\ client[c].pc = "idle" /\ ops < MaxOps
  /\ ops' = ops + 1
  /\ \E s \in Stored :
       /\ k \in DOMAIN s
       /\ client' = [client EXCEPT ![c] =
            [pc |-> "save", key |-> {k}, put |-> Blank, copy |-> Restrict(s, DOMAIN s \ {k})]]
  /\ mixed' = (mixed \/ Saving # {})
  /\ UNCHANGED <<store, now, kept, uncrashed>>

(* What is kept of a put is its value and time to live, with the age of    *)
(* the life of the key that it goes on with.                               *)
Aged(k, e) ==
  IF k \in DOMAIN Live(kept, e.created) THEN [e EXCEPT !.created = kept[k].created] ELSE e

(* save_store: a file that two tasks write at once may not parse after.    *)
SaveStore(c) ==
  /\ \/ client[c].pc = "save" /\ store' = client[c].copy
     \/ client[c].pc = "save" /\ Saving # {c} /\ store' = Blank
     \/ client[c].pc = "lost" /\ UNCHANGED store
  /\ LET put == client[c].put IN
     kept' = [k \in (DOMAIN kept \ client[c].key) \cup DOMAIN put |->
                IF k \in DOMAIN put THEN Aged(k, put[k]) ELSE kept[k]]
  /\ client' = [client EXCEPT ![c] = NoClient]
  /\ UNCHANGED <<now, ops, uncrashed, mixed>>

(* clear_memory removes the file, and with it what a task will write that  *)
(* has opened it already.                                                  *)
Clear ==
  /\ ops < MaxOps /\ store # Blank
  /\ ops' = ops + 1
  /\ store' = Blank /\ kept' = Blank
  /\ \E lost \in SUBSET Saving :
       client' = [c \in Tasks |-> IF c \in lost THEN [client[c] EXCEPT !.pc = "lost"] ELSE client[c]]
  /\ mixed' = (mixed \/ Saving # {})
  /\ UNCHANGED <<now, uncrashed>>

Pass ==
  /\ now < MaxTime
  /\ now' = now + 1
  /\ UNCHANGED <<store, client, kept, ops, uncrashed, mixed>>

(* The node is killed: a file that is being written may stay cut short.    *)
MCrash ==
  /\ uncrashed > 0
  /\ uncrashed' = uncrashed - 1
  /\ store' \in Stored
  /\ client' = [c \in Tasks |-> NoClient]
  /\ mixed' = (mixed \/ Saving # {})
  /\ UNCHANGED <<now, kept, ops>>

MNext ==
  \/ \E c \in Tasks, k \in Keys : Remove(c, k) \/ \E ttl \in TTLs : Put(c, k, ttl)
  \/ \E c \in Tasks : SaveStore(c)
  \/ Clear \/ Pass \/ MCrash

MSpec == MInit /\ [][MNext]_mvars

-----------------------------------------------------------------------------
MTypeOK ==
  /\ {store, kept} \subseteq Stores
  /\ \A c \in Tasks : client[c].key \subseteq Keys /\ {client[c].put, client[c].copy} \subseteq Stores
  /\ now \in 0..MaxTime /\ ops \in 0..MaxOps /\ uncrashed \in 0..MaxCrashes
  /\ mixed \in BOOLEAN

(* Barring an overlap, what a reader finds under a key is the value and    *)
(* the time to live that the last request on it gave, counted from when    *)
(* the key came to life (put_memory_with_embedding).  So a put over a      *)
(* living entry may be expired when it returns: the code's rule, and not   *)
(* guide.rs:347, by which the time counts from the put.  No entry outlives *)
(* its time or comes back after a delete or a clear, and none of the       *)
(* others is lost when a put prunes the file, however long an expired one  *)
(* has stayed in it.                                                       *)
MemoryKept == ~mixed => Live(store, now) = Live(kept, now)
=============================================================================
