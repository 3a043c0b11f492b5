---------------------------- MODULE ResponseStore ----------------------------
(***************************************************************************)
(* The on-disk response store of LLM games (socsim-games/src/llm/store.rs, *)
(* with its use by llm/driver.rs and llm/manifest.rs): a base file, one    *)
(* shard per run tag, runs that open the store, look up and append, and    *)
(* processes that fold all shards into the base.  Runs and mergers crash   *)
(* between any two file operations and may leave a partial line behind.    *)
(*                                                                         *)
(* The runs record misses (ReplayMode::RecordMisses); the two other modes   *)
(* write nothing.  Line order in a file does not matter to any reader.      *)
(***************************************************************************)
EXTENDS Naturals, FiniteSets, Functions

CONSTANTS Runs,      \* processes that open the store
          TagOf,     \* run -> its tag, hence its shard file
          Mergers,   \* processes that call merge_shards
          Keys,      \* canonical request keys
          Digest,    \* key -> FNV-1a digest
          Replies,   \* responses a backend may give
          Breaks,    \* how an append may break off, see BreakAppend
          Quiet      \* TRUE: merges and open stores never overlap, as the
                     \* documentation asks of the caller

Tags == Range(TagOf)
Rec  == [key : Keys, reply : Replies]
(* recs: the records on lines of their own; unended: the record, if any, at
   the end of the file without its newline; torn: some line does not parse. *)
ShardFile == [exists : BOOLEAN, recs : SUBSET Rec, unended : SUBSET Rec, torn : BOOLEAN]

ASSUME StoreAssumption ==
    /\ Runs # {} /\ DOMAIN TagOf = Runs
    /\ DOMAIN Digest = Keys
    /\ Breaks \subseteq {"torn", "unended", "failed"}
    /\ Quiet \in BOOLEAN

VARIABLES base,    \* records of base.jsonl
          shard,   \* tag -> ShardFile
          run,     \* run -> [st, recs]: an open ResponseStore
          merge,   \* merger -> [st, recs, todo, remove]
          acked    \* history: tag -> records whose insert returned Ok

storevars == <<base, shard, run, merge, acked>>

NoShardFile == [exists |-> FALSE, recs |-> {}, unended |-> {}, torn |-> FALSE]
NotOpen == [st |-> "closed", recs |-> {}]
NoMerge == [st |-> "idle", recs |-> {}, todo |-> {}, remove |-> {}]

StoreInit ==
    /\ base = {}
    /\ shard = [g \in Tags |-> NoShardFile]
    /\ run = [p \in Runs |-> NotOpen]
    /\ merge = [m \in Mergers |-> NoMerge]
    /\ acked = [g \in Tags |-> {}]

SameDigest(a, b) == Digest[a.key] = Digest[b.key]

(* Mutant: only records of one key are compared. *)
LoadsByKey(R, S) == \A a \in S, b \in R \union S : a.key = b.key => a = b

(* classify_record finds neither a conflict nor a collision when the records
   of S meet those of R and each other. *)
Loads(R, S) == \A a \in S, b \in R \union S : SameDigest(a, b) => a = b

(* read, parse and load a file into R: a partial line is a Json error. *)
RecordsIn(f) == f.recs \union f.unended
Readable(R, f) == ~f.torn /\ Loads(R, RecordsIn(f))

Merging == \E m \in Mergers : merge[m].st # "idle"
Opened  == \E p \in Runs : run[p].st # "closed"

-----------------------------------------------------------------------------
(* A run                                                                   *)

(* open(): the base is read and loaded ... *)
OpenBase(p) ==
    /\ run[p].st = "closed"
    /\ Quiet => ~Merging
    /\ run' = [run EXCEPT ![p] = [st |-> "opening", recs |-> base]]
    /\ UNCHANGED <<base, shard, merge, acked>>

(* Mutant: open() trusts the base alone. *)
NoShard(p) == NoShardFile

OwnShard(p) == shard[TagOf[p]]

(* ... then, in a second read, the run's own shard; an error fails open(). *)
OpenShard(p) ==
    /\ run[p].st = "opening"
    /\ LET f == OwnShard(p) IN
         run' = [run EXCEPT ![p] =
                   IF Readable(run[p].recs, f)
                     THEN [st |-> "open", recs |-> run[p].recs \union RecordsIn(f)]
                     ELSE NotOpen]
    /\ UNCHANGED <<base, shard, merge, acked>>

Get(p, k) == {r \in run[p].recs : r.key = k}

(* Mutant: the record is kept in memory only. *)
AppendedNothing(f, r) == f

(* append_json_line writes the record and its newline at the end of the file:
   behind an unended record the two share a line, and neither parses. *)
Appended(f, r) ==
    IF f.torn \/ f.unended # {}
      THEN [f EXCEPT !.torn = TRUE, !.unended = {}]
      ELSE [f EXCEPT !.exists = TRUE, !.recs = @ \union {r}]

(* obtain_replies on a miss under RecordMisses: the backend answers and
   insert() appends to the shard, then to memory.  A digest already taken by
   another key is a KeyCollision: nothing changes. *)
Record(p, k, reply) ==
    /\ run[p].st = "open"
    /\ Get(p, k) = {}
    /\ LET r == [key |-> k, reply |-> reply]
           g == TagOf[p]
       IN  /\ \A b \in run[p].recs : ~SameDigest(r, b)
           /\ shard' = [shard EXCEPT ![g] = Appended(@, r)]
           /\ run' = [run EXCEPT ![p].recs = @ \union {r}]
           /\ acked' = [acked EXCEPT ![g] = @ \union {r}]
    /\ UNCHANGED <<base, merge>>

(* The append breaks off.  "torn": the run dies inside the record; "unended":
   it dies before the newline; "failed": write_all returns an error inside the
   record, insert() fails the step and the store stays open. *)
BreakAppend(p, k, reply) ==
    /\ run[p].st = "open"
    /\ Get(p, k) = {}
    /\ LET r == [key |-> k, reply |-> reply]
           g == TagOf[p]
       IN \E how \in Breaks :
            /\ shard' = [shard EXCEPT ![g] =
                           IF how = "unended" /\ ~@.torn /\ @.unended = {}
                             THEN [@ EXCEPT !.exists = TRUE, !.unended = {r}]
                             ELSE [@ EXCEPT !.exists = TRUE, !.unended = {}, !.torn = TRUE]]
            /\ run' = IF how = "failed" THEN run ELSE [run EXCEPT ![p] = NotOpen]
    /\ UNCHANGED <<base, merge, acked>>

(* The run ends or crashes. *)
Close(p) ==
    /\ run[p].st # "closed"
    /\ run' = [run EXCEPT ![p] = NotOpen]
    /\ UNCHANGED <<base, shard, merge, acked>>

-----------------------------------------------------------------------------
(* merge_shards_locked, one file operation at a time                       *)

(* Mutant: the merge starts from an empty base. *)
MergeFromNothing(m) ==
    /\ merge[m].st = "idle"
    /\ Quiet => ~Opened /\ ~Merging
    /\ merge' = [merge EXCEPT ![m] = [st |-> "list", recs |-> {}, todo |-> {}, remove |-> {}]]
    /\ UNCHANGED <<base, shard, run, acked>>

(* MERGE_LOCK is taken and the base read. *)
MergeBase(m) ==
    /\ merge[m].st = "idle"
    /\ Quiet => ~Opened /\ ~Merging
    /\ merge' = [merge EXCEPT ![m] = [st |-> "list", recs |-> base, todo |-> {}, remove |-> {}]]
    /\ UNCHANGED <<base, shard, run, acked>>

(* read_dir: the shards that exist now; with none the merge is over. *)
MergeList(m) ==
    /\ merge[m].st = "list"
    /\ LET found == {g \in Tags : shard[g].exists} IN
         merge' = [merge EXCEPT ![m] =
                     IF found = {} THEN NoMerge
                     ELSE [st |-> "read", recs |-> merge[m].recs, todo |-> found, remove |-> found]]
    /\ UNCHANGED <<base, shard, run, acked>>

(* One shard is read: a vanished one is skipped, a partial line, conflict or
   collision ends the merge before anything is written. *)
MergeShard(m, g) ==
    /\ merge[m].st = "read" /\ g \in merge[m].todo
    /\ LET recs == IF shard[g].exists THEN RecordsIn(shard[g]) ELSE {}
           new  == [st |-> "read", recs |-> merge[m].recs \union recs,
                    todo |-> merge[m].todo \ {g}, remove |-> merge[m].remove]
       IN  merge' = [merge EXCEPT ![m] =
                       IF shard[g].exists /\ ~Readable(merge[m].recs, shard[g])
                         THEN NoMerge ELSE new]
    /\ UNCHANGED <<base, shard, run, acked>>

(* The temporary file is complete: rename it over the base. *)
MergeRename(m) ==
    /\ merge[m].st = "read" /\ merge[m].todo = {}
    /\ base' = merge[m].recs
    /\ merge' = [merge EXCEPT ![m].st = "remove"]
    /\ UNCHANGED <<shard, run, acked>>

(* The listed shards are removed one by one. *)
MergeRemove(m, g) ==
    /\ merge[m].st = "remove" /\ g \in merge[m].remove
    /\ shard' = [shard EXCEPT ![g] = NoShardFile]
    /\ merge' = IF merge[m].remove = {g}
                  THEN [merge EXCEPT ![m] = NoMerge]
                  ELSE [merge EXCEPT ![m].remove = @ \ {g}]
    /\ UNCHANGED <<base, run, acked>>

MergeCrash(m) ==
    /\ merge[m].st # "idle"
    /\ merge' = [merge EXCEPT ![m] = NoMerge]
    /\ UNCHANGED <<base, shard, run, acked>>

Run(p) ==
    \/ OpenBase(p)
    \/ OpenShard(p)
    \/ \E k \in Keys, reply \in Replies : Record(p, k, reply) \/ BreakAppend(p, k, reply)
    \/ Close(p)

Merger(m) ==
    \/ MergeBase(m)
    \/ MergeList(m)
    \/ \E g \in Tags : MergeShard(m, g) \/ MergeRemove(m, g)
    \/ MergeRename(m)
    \/ MergeCrash(m)

StoreNext == (\E p \in Runs : Run(p)) \/ (\E m \in Mergers : Merger(m))

StoreSpec == StoreInit /\ [][StoreNext]_storevars

-----------------------------------------------------------------------------
(* Properties                                                              *)

(* Types of the files, of the open stores and of the merges under way. *)
TypeOK ==
    /\ base \in SUBSET Rec
    /\ shard \in [Tags -> ShardFile]
    /\ run \in [Runs -> [st : {"closed", "opening", "open"}, recs : SUBSET Rec]]
    /\ merge \in [Mergers -> [st : {"idle", "list", "read", "remove"},
                              recs : SUBSET Rec,
                              todo : SUBSET Tags, remove : SUBSET Tags]]
    /\ \A m \in Mergers : merge[m].todo \subseteq merge[m].remove
    /\ acked \in [Tags -> SUBSET Rec]

OnDisk == base \union UNION {RecordsIn(shard[g]) : g \in Tags}

(* A response whose insert returned Ok is never lost: crashes, failed merges
   and partial lines notwithstanding, its line is in the base or in a shard. *)
NoLostRecord == \A g \in Tags : acked[g] \subseteq OnDisk

(* The base never holds two records for one digest, so it always loads. *)
BaseLoads == \A a, b \in base : Digest[a.key] = Digest[b.key] => a = b

(* A run that opened the store serves every response its tag has recorded
   before, merged or not, so it never asks the backend for one again. *)
OwnHistorySeen ==
    \A p \in Runs : run[p].st = "open" => acked[TagOf[p]] \subseteq run[p].recs

(* What an open store serves is what the disk holds: a later run that finds
   the key finds the same reply. *)
ServedIsStored ==
    \A p \in Runs : run[p].st = "open" => run[p].recs \subseteq OnDisk
=============================================================================
