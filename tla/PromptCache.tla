------------------------------ MODULE PromptCache ------------------------------
(***************************************************************************)
(* Clients with a prompt cache (CachingClient, SharedCachingClient) over a *)
(* FallbackClient, in programs that share one cache file: completions,     *)
(* open and save, and crashes between the file operations of a save.       *)
(*                                                                         *)
(* Files are inodes, because save() writes a temporary file of a fixed     *)
(* name: two programs that save at once hold the same one open.            *)
(***************************************************************************)
EXTENDS Integers, Sequences, FiniteSets
CONSTANTS Client, Model(_),       \* programs, and the model of each one's primary backend
          Prompt, Text,
          PromptHash(_, _),       \* 64 bits of FNV-1a over a model and a prompt: they may collide
          MaxCalls, MaxSaves      \* bounds: completions and saves of all clients

VARIABLES mem,      \* client -> "closed" or its entries, key -> text
          saving,   \* client -> inode it is writing to, 0 when it is not saving
          synced,   \* client -> has it written what it wants to save
          inodes, tmp, file,      \* contents; the inodes of the two names, 0 when absent
          asked     \* ghost: completions and saves: what was returned and who answered

cvars == <<mem, saving, synced, inodes, tmp, file, asked>>

Closed == [open |-> FALSE, entries |-> << >>]
KeyWithoutModel(c, p) == PromptHash("", p)   \* mutant: clients of two models share their answers
\* cache_key: a hash of model and prompt, nothing of the configuration of the call; neither
\* of the two is kept beside the answer, so that nobody notices a collision.
Key(c, p) == PromptHash(Model(c), p)
Torn(e) == [whole |-> FALSE, entries |-> e]
Whole(e) == [whole |-> TRUE, entries |-> e]
Empty == Torn(<< >>)

CacheInit ==
  /\ mem = [c \in Client |-> Closed] /\ saving = [c \in Client |-> 0] /\ synced = [c \in Client |-> FALSE]
  /\ inodes = <<>> /\ tmp = 0 /\ file = 0
  /\ asked = [calls |-> <<>>, saves |-> {}, starts |-> 0]

\* PromptCache::open: a missing file is an empty cache, a file that does not parse an error.
Open(c) ==
  /\ ~mem[c].open
  /\ file # 0 => inodes[file].whole
  /\ mem' = [mem EXCEPT ![c] = [open |-> TRUE, entries |-> IF file = 0 THEN << >> ELSE inodes[file].entries]]
  /\ UNCHANGED <<saving, synced, inodes, tmp, file, asked>>

With(entries, k, x) == [j \in DOMAIN entries \cup {k} |-> IF j = k THEN x ELSE entries[j]]
Reply(c, p, x, hit) == [client |-> c, prompt |-> p, text |-> x, hit |-> hit]

MayCall(c) == mem[c].open /\ saving[c] = 0 /\ Len(asked.calls) < MaxCalls

\* A key that is there is served without asking a backend.
ServeHit(c, p) ==
  /\ MayCall(c) /\ Key(c, p) \in DOMAIN mem[c].entries
  /\ asked' = [asked EXCEPT !.calls = Append(asked.calls, Reply(c, p, mem[c].entries[Key(c, p)], TRUE))]
  /\ UNCHANGED <<mem, saving, synced, inodes, tmp, file>>

\* Otherwise the primary answers, or fails and the secondary does; either answer is
\* stored under the primary's model.  When both fail nothing is stored.
AskBackend(c, p) ==
  /\ MayCall(c) /\ Key(c, p) \notin DOMAIN mem[c].entries
  /\ \E x \in Text :
       /\ mem' = [mem EXCEPT ![c] = [open |-> TRUE, entries |-> With(mem[c].entries, Key(c, p), x)]]
       /\ asked' = [asked EXCEPT !.calls = Append(asked.calls, Reply(c, p, x, FALSE))]
  /\ UNCHANGED <<saving, synced, inodes, tmp, file>>

\* save: create or truncate the temporary file, write it, rename it.
SaveCreate(c) ==
  /\ mem[c].open /\ saving[c] = 0 /\ asked.starts < MaxSaves
  /\ IF tmp = 0 THEN inodes' = Append(inodes, Empty) /\ tmp' = Len(inodes) + 1
                ELSE inodes' = [inodes EXCEPT ![tmp] = Empty] /\ UNCHANGED tmp
  /\ saving' = [saving EXCEPT ![c] = tmp'] /\ synced' = [synced EXCEPT ![c] = FALSE]
  /\ asked' = [asked EXCEPT !.starts = asked.starts + 1]
  /\ UNCHANGED <<mem, file>>

\* Everybody writes from the start of the file: of a longer text that is there the tail
\* stays behind, and what is left does not parse.
SaveWrite(c) ==
  /\ saving[c] # 0 /\ ~synced[c]
  /\ LET old == inodes[saving[c]].entries
         new == mem[c].entries
     IN  \E became \in {Whole(new)} \cup (IF old = << >> THEN {} ELSE {Torn(old)}) :
           inodes' = [inodes EXCEPT ![saving[c]] = became]
  /\ synced' = [synced EXCEPT ![c] = TRUE]
  /\ asked' = [asked EXCEPT !.saves = asked.saves \cup {mem[c].entries}]
  /\ UNCHANGED <<mem, saving, tmp, file>>

\* The rename fails when somebody else has renamed the file away.
SaveRename(c) ==
  /\ saving[c] # 0 /\ synced[c]
  /\ IF tmp = 0 THEN UNCHANGED <<tmp, file>> ELSE file' = tmp /\ tmp' = 0
  /\ saving' = [saving EXCEPT ![c] = 0] /\ synced' = [synced EXCEPT ![c] = FALSE]
  /\ UNCHANGED <<mem, inodes, asked>>

\* The program ends or crashes, also in the middle of a save.
Exit(c) ==
  /\ mem[c].open
  /\ mem' = [mem EXCEPT ![c] = Closed]
  /\ saving' = [saving EXCEPT ![c] = 0] /\ synced' = [synced EXCEPT ![c] = FALSE]
  /\ UNCHANGED <<inodes, tmp, file, asked>>

CacheNext == \E c \in Client : \/ Open(c) \/ SaveCreate(c) \/ SaveWrite(c) \/ SaveRename(c) \/ Exit(c)
                               \/ \E p \in Prompt : ServeHit(c, p) \/ AskBackend(c, p)

CacheSpec == CacheInit /\ [][CacheNext]_cvars

-----------------------------------------------------------------------------
(* Properties *)

\* What two calls must share to share an answer: the hash of model and prompt.  Where no
\* two pairs collide that is the same prompt to the same model.
SameKey(a, b) == PromptHash(Model(a.client), a.prompt) = PromptHash(Model(b.client), b.prompt)

\* A warm cache replays: whatever is served from a cache was answered by a backend to
\* the same prompt of a client with the same model, or to a pair of the two that the hash
\* does not tell from it, through any saves, crashes and loads of the shared file; and a
\* file that parses is the whole cache of some client at the moment it saved, never a
\* mixture of two.
HitsReplay ==
  /\ \A j \in DOMAIN asked.calls : asked.calls[j].hit =>
       \E i \in 1 .. j - 1 : /\ ~asked.calls[i].hit
                             /\ asked.calls[i].text = asked.calls[j].text
                             /\ SameKey(asked.calls[i], asked.calls[j])
  /\ file # 0 /\ inodes[file].whole => inodes[file].entries \in asked.saves
=============================================================================
