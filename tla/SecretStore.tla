----------------------------- MODULE SecretStore -----------------------------
(***************************************************************************)
(* The tenants' secrets, each file encrypted with one master key that the  *)
(* first user generates.  Every load and every save asks for the key; who  *)
(* does not find 32 bytes in its file makes a new one.  A file that does   *)
(* not decrypt reads as no secrets at all, and the next upsert writes that *)
(* back.  Agents load the secrets when they start, in the node or from the *)
(* command line, a process of its own.                                     *)
(*                                                                         *)
(* Encryption is modelled by what it does: a file is readable with the key *)
(* it was written with.  Plaintext files of older nodes are left out.      *)
(***************************************************************************)
EXTENDS Naturals, FiniteSets

CONSTANTS Tenants, Names, Tasks, MaxOps, MaxCrashes

VARIABLES
  key,      \* .master.key: the number of a key, NoFile or Torn
  secrets,  \* each tenant's file: its key and what it holds; key NoFile: no file
  user,     \* what each task does
  keys,     \* keys made so far
  promised, \* history: names whose upsert has returned, of each tenant
  ops, uncrashed,  \* bounds: requests so far, crashes left
  keyRaced, \* history: two tasks were making a key at once
  raced     \* history: tenants two tasks were writing, or one died writing

svars == <<key, secrets, user, keys, promised, ops, uncrashed, keyRaced, raced>>

NoFile == 0
Torn == 1
NoSecrets == [key |-> NoFile, held |-> {}]
AtRest == [pc |-> "idle", op |-> "none", tenant |-> {}, name |-> {}, key |-> NoFile, copy |-> {}]

SInit ==
  /\ key = NoFile /\ keys = 1
  /\ secrets = [t \in Tenants |-> NoSecrets]
  /\ user = [k \in Tasks |-> AtRest]
  /\ promised = [t \in Tenants |-> {}]
  /\ ops = 0 /\ uncrashed = MaxCrashes
  /\ keyRaced = FALSE /\ raced = {}

Writers(t) == {k \in Tasks : user[k].op = "upsert" /\ t \in user[k].tenant}
Go(k, pc) == user' = [user EXCEPT ![k].pc = pc]

(* An agent starts: a load that finds no file asks for no key.             *)
Start(k, t) ==
  /\ user[k].pc = "idle" /\ ops < MaxOps /\ secrets[t].key # NoFile
  /\ ops' = ops + 1
  /\ user' = [user EXCEPT ![k] =
       [AtRest EXCEPT !.op = "start", !.tenant = {t}, !.pc = "loadkey"]]
  /\ UNCHANGED <<key, secrets, keys, promised, uncrashed, keyRaced, raced>>

(* upsert_secrets of one name.                                             *)
Upsert(k, t, s) ==
  /\ user[k].pc = "idle" /\ ops < MaxOps
  /\ ops' = ops + 1
  /\ user' = [user EXCEPT ![k] =
       [AtRest EXCEPT !.op = "upsert", !.tenant = {t}, !.name = {s}, !.pc =
          IF secrets[t].key # NoFile THEN "loadkey" ELSE "savekey"]]
  /\ raced' = IF Writers(t) # {} THEN raced \cup {t} ELSE raced
  /\ UNCHANGED <<key, secrets, keys, promised, uncrashed, keyRaced>>

AfterKey(pc) == IF pc \in {"loadkey", "loadput"} THEN "read" ELSE "open"

(* Mutant of Usable: any file is taken for a key.                          *)
Usable_Any(k) == k # NoFile
Usable(k) == k \notin {NoFile, Torn}

(* get_or_create_master_key.                                               *)
GetKey(k) ==
  /\ user[k].pc \in {"loadkey", "savekey"}
  /\ IF Usable(key)
     THEN user' = [user EXCEPT ![k].key = key, ![k].pc = AfterKey(user[k].pc)]
     ELSE Go(k, IF user[k].pc = "loadkey" THEN "loadnew" ELSE "savenew")
  /\ keyRaced' = (keyRaced \/ (~Usable(key) /\ \E o \in Tasks \ {k} :
                     user[o].pc \in {"loadnew", "savenew", "loadput", "saveput"}))
  /\ UNCHANGED <<key, secrets, keys, promised, ops, uncrashed, raced>>

OpenKey(k) ==
  /\ user[k].pc \in {"loadnew", "savenew"}
  /\ key' = Torn
  /\ Go(k, IF user[k].pc = "loadnew" THEN "loadput" ELSE "saveput")
  /\ UNCHANGED <<secrets, keys, promised, ops, uncrashed, keyRaced, raced>>

PutKey(k) ==
  /\ user[k].pc \in {"loadput", "saveput"}
  /\ keys' = keys + 1
  /\ key' = keys'
  /\ user' = [user EXCEPT ![k].key = keys', ![k].pc = AfterKey(user[k].pc)]
  /\ UNCHANGED <<secrets, promised, ops, uncrashed, keyRaced, raced>>

(* load_secrets_inner, and unwrap_or_default.                              *)
Readable(t, k) == IF secrets[t].key = k THEN secrets[t].held ELSE {}

Read(k) ==
  /\ user[k].pc = "read"
  /\ \E t \in user[k].tenant :
       user' = [user EXCEPT ![k] =
         IF user[k].op = "start" THEN AtRest
         ELSE [@ EXCEPT !.copy = Readable(t, user[k].key), !.pc = "savekey"]]
  /\ UNCHANGED <<key, secrets, keys, promised, ops, uncrashed, keyRaced, raced>>

(* save_secrets: the file is cut, then written; after two at once it may   *)
(* not decrypt.                                                            *)
Open(k) ==
  /\ user[k].pc = "open"
  /\ \E t \in user[k].tenant : secrets' = [secrets EXCEPT ![t] = [key |-> Torn, held |-> {}]]
  /\ Go(k, "write")
  /\ UNCHANGED <<key, keys, promised, ops, uncrashed, keyRaced, raced>>

Write(k) ==
  /\ user[k].pc = "write"
  /\ \E t \in user[k].tenant :
       /\ \/ secrets[t].key = NoFile /\ UNCHANGED secrets   \* it was removed
          \/ secrets[t].key # NoFile /\ secrets' = [secrets EXCEPT ![t] =
               [key |-> user[k].key, held |-> user[k].copy \cup user[k].name]]
          \/ Usable(secrets[t].key) /\ secrets' = [secrets EXCEPT ![t] = [key |-> Torn, held |-> {}]]
       /\ promised' = [promised EXCEPT ![t] = @ \cup user[k].name]
  /\ user' = [user EXCEPT ![k] = AtRest]
  /\ UNCHANGED <<key, keys, ops, uncrashed, keyRaced, raced>>

(* delete_secrets.                                                         *)
Delete(t) ==
  /\ ops < MaxOps /\ secrets[t].key # NoFile
  /\ ops' = ops + 1
  /\ secrets' = [secrets EXCEPT ![t] = NoSecrets]
  /\ promised' = [promised EXCEPT ![t] = {}]
  /\ raced' = IF Writers(t) # {} THEN raced \cup {t} ELSE raced
  /\ UNCHANGED <<key, user, keys, uncrashed, keyRaced>>

(* A process is killed: what it was writing stays as it is.                *)
SCrash(k) ==
  /\ user[k].pc # "idle" /\ uncrashed > 0
  /\ uncrashed' = uncrashed - 1
  /\ user' = [user EXCEPT ![k] = AtRest]
  /\ raced' = IF user[k].pc = "write" THEN raced \cup user[k].tenant ELSE raced
  /\ UNCHANGED <<key, secrets, keys, promised, ops, keyRaced>>

SNext ==
  \/ \E k \in Tasks, t \in Tenants : Start(k, t) \/ \E s \in Names : Upsert(k, t, s)
  \/ \E k \in Tasks : GetKey(k) \/ OpenKey(k) \/ PutKey(k) \/ Read(k) \/ Open(k) \/ Write(k)
  \/ \E t \in Tenants : Delete(t)
  \/ \E k \in Tasks : SCrash(k)

SSpec == SInit /\ [][SNext]_svars

-----------------------------------------------------------------------------
STypeOK ==
  /\ {key} \cup {secrets[t].key : t \in Tenants} \cup {user[k].key : k \in Tasks}
       \subseteq 0..keys
  /\ \A t \in Tenants : secrets[t].held \subseteq Names /\ promised[t] \subseteq Names
  /\ \A k \in Tasks : user[k].tenant \subseteq Tenants /\ user[k].copy \subseteq Names
  /\ raced \subseteq Tenants /\ keyRaced \in BOOLEAN
  /\ ops \in 0..MaxOps /\ uncrashed \in 0..MaxCrashes

(* Every secret whose upsert has returned is given to the next agent that  *)
(* starts, and the key is never replaced once a file depends on it: unless *)
(* two first users made a key at once, two requests for one tenant         *)
(* overlapped, or one died while it wrote the tenant's file.  What tenants *)
(* do to their own files harms no other tenant.                            *)
SecretsKept ==
  ~keyRaced =>
    \A t \in Tenants \ raced :
      Writers(t) = {} => promised[t] \subseteq Readable(t, key)
=============================================================================
