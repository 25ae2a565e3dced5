---------------------------------- MODULE Db ----------------------------------
(***************************************************************************)
(* The database library of apue.3e/db/db.c: processes share an index file  *)
(* of hash chains and a free list, and a data file, under record locks.    *)
(*                                                                         *)
(* A record's offset is its number in its file.  A place that holds a      *)
(* pointer is 0, the head of the free list, -c, the head of chain c, or    *)
(* the number of an index record.  Between two steps of a process others   *)
(* run: a step is one access to a file, with the taking or giving back of  *)
(* a lock next to it.  A chain's lock is that of its head.                 *)
(***************************************************************************)
EXTENDS Integers, Sequences, FiniteSets

CONSTANTS
  Procs,       \* the processes, each with the database open once
  Creators,    \* those that may open it with O_CREAT | O_TRUNC
  Keys, Data,  \* what is stored
  KeyLen, DatLen, Hash,  \* the length of a key, of data; the chain of a key
  NHASH,       \* the number of chains
  Calls,       \* the calls a process may make
  MaxCalls,    \* bound: the number of calls of each process
  Blank,       \* the key and the data of a deleted record
  None,        \* no record
  Pending

ASSUME DbAssumption ==
  /\ Creators \subseteq Procs
  /\ NHASH \in Nat \ {0}
  /\ Hash \in [Keys -> 1 .. NHASH]
  /\ KeyLen \in [Keys -> Nat] /\ DatLen \in [Data -> Nat]
  /\ MaxCalls \in [Procs -> Nat]
  /\ Blank \notin Keys \cup Data /\ None \notin Data
  /\ Pending \notin Data \cup {None, -1, 0, 1}
  /\ \A r \in Calls :
       \/ r.op \in {"rewind", "nextrec"}
       \/ r.op \in {"fetch", "delete"} /\ r.key \in Keys
       \/ r.op \in {"insert", "replace", "store"} /\ r.key \in Keys /\ r.data \in Data

VARIABLES
  head,        \* the pointers at the front of the index file; <<>>: none yet
  idx,         \* the index records: pointer, key, its length, data record,
               \* its length
  dat,         \* the data records
  rlock,       \* the readers of each chain and of the free list
  wlock,       \* their writers
  tail,        \* who has the end of the index or of the data file locked
  where,       \* where each process is inside a call
  req,         \* the call
  h,           \* its DB structure and the locals of the call
  result,      \* what the call returns
  left,        \* the calls it may still make
  before       \* history: the data of each key when its chain was last
               \* locked for writing

files == <<head, idx, dat>>
locks == <<rlock, wlock, tail>>
dbvars == <<files, locks, where, req, h, result, left, before>>

NoCall == [op |-> "rewind"]

Handle == [off |-> 0, ptroff |-> 0, ptrval |-> 0, idxoff |-> 0, buf |-> Blank,
           datoff |-> 0, datlen |-> 0, save |-> 0, pos |-> 0]

DbInit ==
  /\ head = <<>> /\ idx = <<>> /\ dat = <<>>
  /\ rlock = [b \in 0 .. NHASH |-> {}] /\ wlock = [b \in 0 .. NHASH |-> {}]
  /\ tail = [f \in {"idx", "dat"} |-> {}]
  /\ where = [p \in Procs |-> "closed"]
  /\ req = [p \in Procs |-> NoCall]
  /\ h = [p \in Procs |-> Handle]
  /\ result = [p \in Procs |-> None]
  /\ left = MaxCalls
  /\ before = [k \in Keys |-> None]

Goes(p, place) == where' = [where EXCEPT ![p] = place]

Chain(p) == Hash[req[p].key]
Writes(p) == req[p].op # "fetch"

(***************************************************************************)
(* Record locks, and the fields of a record or a pointer.                  *)
(***************************************************************************)
ReadwLock(b, p) ==
  /\ wlock[b] \ {p} = {}
  /\ rlock' = [rlock EXCEPT ![b] = @ \cup {p}] /\ UNCHANGED <<wlock, tail>>

WritewLock(b, p) ==
  /\ (rlock[b] \cup wlock[b]) \ {p} = {}
  /\ wlock' = [wlock EXCEPT ![b] = @ \cup {p}] /\ UNCHANGED <<rlock, tail>>

UnLock(b, p) ==
  /\ rlock' = [rlock EXCEPT ![b] = @ \ {p}] /\ wlock' = [wlock EXCEPT ![b] = @ \ {p}]
  /\ UNCHANGED tail

ReadPtr(place) == IF place > 0 THEN idx[place].ptr ELSE head[-place]

WritePtr(place, n) ==
  \/ place > 0 /\ idx' = [idx EXCEPT ![place].ptr = n] /\ UNCHANGED head
  \/ place <= 0 /\ head' = [head EXCEPT ![-place] = n] /\ UNCHANGED idx

ReadIdx(p, n) ==       \* what the DB structure holds after reading record n
  [h[p] EXCEPT !.ptrval = idx[n].ptr, !.idxoff = n, !.buf = idx[n].key,
               !.datoff = idx[n].dat, !.datlen = idx[n].len]

Put(file, n, record) ==    \* write at n, which may be the end
  IF n > Len(file) THEN Append(file, record) ELSE [file EXCEPT ![n] = record]

(***************************************************************************)
(* The records reached from a pointer, and the data of a key.              *)
(***************************************************************************)
Trail(b) ==
  LET at[n \in 0 .. Len(idx)] == IF n = 0 THEN head[b]
                                 ELSE IF at[n - 1] = 0 THEN 0 ELSE idx[at[n - 1]].ptr
  IN  IF head = <<>> THEN {} ELSE {at[n] : n \in 0 .. Len(idx)} \ {0}

Value(k) ==
  LET found == {n \in Trail(Hash[k]) : idx[n].key = k}
  IN  IF found = {} THEN None ELSE dat[idx[CHOOSE n \in found : TRUE].dat].data

(***************************************************************************)
(* db_open, db_close.  Nobody truncates a database that others have open.  *)
(***************************************************************************)
DbOpen(p) ==
  /\ where[p] = "closed"
  /\ \/ /\ p \in Creators /\ \A q \in Procs : where[q] \in {"closed", "create"}
        /\ head' = <<>> /\ idx' = <<>> /\ dat' = <<>>
        /\ Goes(p, "create")
        /\ UNCHANGED h
     \/ /\ head # <<>>
        /\ h' = [h EXCEPT ![p].pos = 1]
        /\ Goes(p, "idle")
        /\ UNCHANGED files
  /\ UNCHANGED <<locks, req, result, left, before>>

CreateTable(p) ==      \* with the whole index file locked
  /\ where[p] = "create"
  /\ \A b \in 0 .. NHASH : (rlock[b] \cup wlock[b]) \ {p} = {}
  /\ tail["idx"] = {}
  /\ head' = IF head = <<>> THEN [b \in 0 .. NHASH |-> 0] ELSE head
  /\ h' = [h EXCEPT ![p].pos = 1]
  /\ Goes(p, "idle")
  /\ UNCHANGED <<idx, dat, locks, req, result, left, before>>

DbClose(p) ==
  /\ where[p] = "idle"
  /\ Goes(p, "gone")
  /\ UNCHANGED <<files, locks, req, h, result, left, before>>

(***************************************************************************)
(* A call.  The DB structure is written before it is read, so it starts    *)
(* cleared; only db_rewind and db_nextrec leave the index file's offset    *)
(* where db_nextrec can go on.                                             *)
(***************************************************************************)
Call(p, r) ==
  /\ where[p] = "idle" /\ left[p] > 0
  /\ r.op = "nextrec" => h[p].pos > 0
  /\ req' = [req EXCEPT ![p] = r]
  /\ left' = [left EXCEPT ![p] = @ - 1]
  /\ h' = [h EXCEPT ![p] = [Handle EXCEPT !.pos =
             CASE r.op = "nextrec" -> h[p].pos [] r.op = "rewind" -> 1 [] OTHER -> 0]]
  /\ Goes(p, CASE r.op = "nextrec" -> "next" [] r.op = "rewind" -> "idle" [] OTHER -> "find")
  /\ result' = [result EXCEPT ![p] = None]
  /\ UNCHANGED <<files, locks, before>>

Return(p) ==           \* give the chain back
  /\ where[p] = "return"
  /\ UnLock(Chain(p), p)
  /\ h' = [h EXCEPT ![p] = Handle]
  /\ Goes(p, "idle")
  /\ UNCHANGED <<files, req, result, left, before>>

(***************************************************************************)
(* _db_find_and_lock                                                       *)
(***************************************************************************)
FindStart(p) ==
  /\ where[p] = "find"
  /\ \/ Writes(p) /\ WritewLock(Chain(p), p)
     \/ ~Writes(p) /\ ReadwLock(Chain(p), p)
  /\ h' = [h EXCEPT ![p].ptroff = -Chain(p), ![p].off = ReadPtr(-Chain(p))]
  /\ before' = [k \in Keys |-> IF Writes(p) /\ Hash[k] = Chain(p) THEN Value(k) ELSE before[k]]
  /\ Goes(p, "walk")
  /\ UNCHANGED <<files, req, result, left>>

FindNext(p) ==
  /\ where[p] = "walk" /\ h[p].off # 0 /\ idx[h[p].off].key # req[p].key
  /\ h' = [h EXCEPT ![p] = [ReadIdx(p, @.off) EXCEPT !.ptroff = h[p].off, !.off = idx[h[p].off].ptr]]
  /\ UNCHANGED <<files, locks, where, req, result, left, before>>

Found(p) ==
  /\ where[p] = "walk" /\ h[p].off # 0 /\ idx[h[p].off].key = req[p].key
  /\ h' = [h EXCEPT ![p] = ReadIdx(p, @.off)]
  /\ \/ req[p].op = "fetch" /\ Goes(p, "data") /\ UNCHANGED result
     \/ req[p].op = "delete" /\ Goes(p, "blank_data") /\ UNCHANGED result
     \/ req[p].op = "insert" /\ Goes(p, "return") /\ result' = [result EXCEPT ![p] = 1]
     \/ /\ req[p].op \in {"replace", "store"}
        /\ Goes(p, IF idx[h[p].off].len = DatLen[req[p].data] THEN "overwrite" ELSE "blank_data")
        /\ UNCHANGED result
  /\ UNCHANGED <<files, locks, req, left, before>>

NotFound(p) ==
  /\ where[p] = "walk" /\ h[p].off = 0
  /\ \/ /\ req[p].op \in {"fetch", "delete", "replace"}
        /\ result' = [result EXCEPT ![p] = IF req[p].op = "fetch" THEN None ELSE -1]
        /\ Goes(p, "return")
        /\ UNCHANGED h
     \/ /\ req[p].op \in {"insert", "store"}
        /\ h' = [h EXCEPT ![p].save = ReadPtr(-Chain(p))]
        /\ Goes(p, "find_free")
        /\ UNCHANGED result
  /\ UNCHANGED <<files, locks, req, left, before>>

FetchData(p) ==        \* _db_readdat
  /\ where[p] = "data"
  /\ result' = [result EXCEPT ![p] = dat[h[p].datoff].data]
  /\ Goes(p, "return")
  /\ UNCHANGED <<files, locks, req, h, left, before>>

(***************************************************************************)
(* _db_dodelete: under the lock of the free list.                          *)
(***************************************************************************)
BlankData(p) ==
  /\ where[p] = "blank_data"
  /\ WritewLock(0, p)
  /\ dat' = [dat EXCEPT ![h[p].datoff].data = Blank]
  /\ Goes(p, "blank_idx")
  /\ UNCHANGED <<head, idx, req, h, result, left, before>>

BlankIdx_SavesLate(p) ==      \* mutant: the pointer is saved after it is rewritten
  /\ where[p] = "blank_idx"
  /\ h' = [h EXCEPT ![p].save = ReadPtr(0)]
  /\ idx' = [idx EXCEPT ![h[p].idxoff] = [@ EXCEPT !.key = Blank, !.ptr = ReadPtr(0)]]
  /\ Goes(p, "push")
  /\ UNCHANGED <<head, dat, locks, req, result, left, before>>

BlankIdx(p) ==
  /\ where[p] = "blank_idx"
  /\ h' = [h EXCEPT ![p].save = h[p].ptrval]
  /\ idx' = [idx EXCEPT ![h[p].idxoff] = [@ EXCEPT !.key = Blank, !.ptr = ReadPtr(0)]]
  /\ Goes(p, "push")
  /\ UNCHANGED <<head, dat, locks, req, result, left, before>>

Push(p) ==
  /\ where[p] = "push"
  /\ WritePtr(0, h[p].idxoff)
  /\ Goes(p, "unchain")
  /\ UNCHANGED <<dat, locks, req, h, result, left, before>>

Unchain(p) ==
  /\ where[p] = "unchain"
  /\ WritePtr(h[p].ptroff, h[p].save)
  /\ UnLock(0, p)
  /\ \/ req[p].op = "delete" /\ Goes(p, "return") /\ result' = [result EXCEPT ![p] = 0]
     \/ req[p].op # "delete" /\ Goes(p, "reread") /\ UNCHANGED result
  /\ UNCHANGED <<dat, req, h, left, before>>

(***************************************************************************)
(* _db_findfree                                                            *)
(***************************************************************************)
Fits_DataOnly(p, n) == idx[n].len = DatLen[req[p].data]  \* mutant: any key length

Fits(p, n) == idx[n].klen = KeyLen[req[p].key] /\ idx[n].len = DatLen[req[p].data]

FindFree_NoLock(p) ==         \* mutant: the free list is not locked
  /\ where[p] = "find_free"
  /\ h' = [h EXCEPT ![p].ptroff = 0, ![p].off = ReadPtr(0)]
  /\ Goes(p, "search")
  /\ UNCHANGED <<files, locks, req, result, left, before>>

FindFree(p) ==
  /\ where[p] = "find_free"
  /\ WritewLock(0, p)
  /\ h' = [h EXCEPT ![p].ptroff = 0, ![p].off = ReadPtr(0)]
  /\ Goes(p, "search")
  /\ UNCHANGED <<files, req, result, left, before>>

SearchFree(p) ==
  /\ where[p] = "search" /\ h[p].off # 0 /\ ~Fits(p, h[p].off)
  /\ h' = [h EXCEPT ![p] = [ReadIdx(p, @.off) EXCEPT !.ptroff = h[p].off, !.off = idx[h[p].off].ptr]]
  /\ UNCHANGED <<files, locks, where, req, result, left, before>>

TakeFree(p) ==
  /\ where[p] = "search" /\ h[p].off # 0 /\ Fits(p, h[p].off)
  /\ h' = [h EXCEPT ![p] = ReadIdx(p, @.off)]
  /\ WritePtr(h[p].ptroff, idx[h[p].off].ptr)
  /\ UnLock(0, p)
  /\ Goes(p, "write_data")
  /\ UNCHANGED <<dat, req, result, left, before>>

NoneFree(p) ==
  /\ where[p] = "search" /\ h[p].off = 0
  /\ UnLock(0, p)
  /\ Goes(p, "append_data")
  /\ UNCHANGED <<files, req, h, result, left, before>>

(***************************************************************************)
(* The rest of db_store: _db_writedat and _db_writeidx, in place or, with  *)
(* the end of the file locked for the seek and the write, at the end.      *)
(***************************************************************************)
Reread_Skipped(p) ==          \* mutant: the pointer of before the deletion is used
  /\ where[p] = "reread"
  /\ Goes(p, "append_data")
  /\ UNCHANGED <<files, locks, req, h, result, left, before>>

Reread(p) ==
  /\ where[p] = "reread"
  /\ h' = [h EXCEPT ![p].save = ReadPtr(-Chain(p))]
  /\ Goes(p, "append_data")
  /\ UNCHANGED <<files, locks, req, result, left, before>>

SeekEnd(p, file, length, field, from, to) ==
  /\ where[p] = from /\ tail[file] \ {p} = {}
  /\ tail' = [tail EXCEPT ![file] = @ \cup {p}]
  /\ h' = [h EXCEPT ![p][field] = length + 1]
  /\ Goes(p, to)
  /\ UNCHANGED <<files, rlock, wlock, req, result, left, before>>

AppendData(p) == SeekEnd(p, "dat", Len(dat), "datoff", "append_data", "write_end_data")
AppendIdx(p) == SeekEnd(p, "idx", Len(idx), "idxoff", "append_idx", "write_end_idx")

WriteData(p) ==
  /\ where[p] \in {"write_data", "write_end_data", "overwrite"}
  /\ dat' = Put(dat, h[p].datoff, [data |-> req[p].data, len |-> DatLen[req[p].data]])
  /\ tail' = [tail EXCEPT !["dat"] = @ \ {p}]
  /\ h' = [h EXCEPT ![p].datlen = DatLen[req[p].data]]
  /\ Goes(p, CASE where[p] = "write_data" -> "write_idx"
             [] where[p] = "write_end_data" -> "append_idx"
             [] OTHER -> "return")
  /\ result' = [result EXCEPT ![p] = IF where[p] = "overwrite" THEN 0 ELSE @]
  /\ UNCHANGED <<head, idx, rlock, wlock, req, left, before>>

WriteIdx(p) ==
  /\ where[p] \in {"write_idx", "write_end_idx"}
  /\ idx' = Put(idx, h[p].idxoff,
                [ptr |-> h[p].save, key |-> req[p].key, klen |-> KeyLen[req[p].key],
                 dat |-> h[p].datoff, len |-> h[p].datlen])
  /\ tail' = [tail EXCEPT !["idx"] = @ \ {p}]
  /\ Goes(p, "link")
  /\ UNCHANGED <<head, dat, rlock, wlock, req, h, result, left, before>>

Link(p) ==             \* the record goes to the front of its chain
  /\ where[p] = "link"
  /\ WritePtr(-Chain(p), h[p].idxoff)
  /\ result' = [result EXCEPT ![p] = 0]
  /\ Goes(p, "return")
  /\ UNCHANGED <<dat, locks, req, h, left, before>>

(***************************************************************************)
(* db_nextrec                                                              *)
(***************************************************************************)
NextStart_NoLock(p) ==        \* mutant: the scan does not lock the free list
  /\ where[p] = "next"
  /\ Goes(p, "next_idx")
  /\ UNCHANGED <<files, locks, req, h, result, left, before>>

NextStart(p) ==
  /\ where[p] = "next"
  /\ ReadwLock(0, p)
  /\ Goes(p, "next_idx")
  /\ UNCHANGED <<files, req, h, result, left, before>>

NextIdx(p) ==          \* a deleted record is skipped
  /\ where[p] = "next_idx" /\ h[p].pos <= Len(idx)
  /\ h' = [h EXCEPT ![p] = [ReadIdx(p, h[p].pos) EXCEPT !.pos = @ + 1]]
  /\ Goes(p, IF idx[h[p].pos].key = Blank THEN "next_idx" ELSE "next_data")
  /\ UNCHANGED <<files, locks, req, result, left, before>>

NextEnd(p) ==
  /\ where[p] = "next_idx" /\ h[p].pos > Len(idx)
  /\ UnLock(0, p)
  /\ Goes(p, "idle")
  /\ UNCHANGED <<files, req, h, result, left, before>>

NextData(p) ==
  /\ where[p] = "next_data"
  /\ result' = [result EXCEPT ![p] = <<h[p].buf, dat[h[p].datoff].data>>]
  /\ h' = [h EXCEPT ![p] = [Handle EXCEPT !.pos = h[p].pos]]
  /\ UnLock(0, p)
  /\ Goes(p, "idle")
  /\ UNCHANGED <<files, req, left, before>>

(***************************************************************************)
(* The specification.                                                      *)
(***************************************************************************)
Step(p) ==
  \/ DbOpen(p) \/ CreateTable(p) \/ DbClose(p)
  \/ FindStart(p) \/ FindNext(p) \/ Found(p) \/ NotFound(p) \/ FetchData(p) \/ Return(p)
  \/ BlankData(p) \/ BlankIdx(p) \/ Push(p) \/ Unchain(p) \/ Reread(p)
  \/ FindFree(p) \/ SearchFree(p) \/ TakeFree(p) \/ NoneFree(p)
  \/ AppendData(p) \/ AppendIdx(p) \/ WriteData(p) \/ WriteIdx(p) \/ Link(p)
  \/ NextStart(p) \/ NextIdx(p) \/ NextEnd(p) \/ NextData(p)

AllGone == (\A p \in Procs : where[p] = "gone") /\ UNCHANGED dbvars

DbNext ==
  \/ \E p \in Procs : Step(p) \/ \E r \in Calls : Call(p, r)
  \/ AllGone

DbSpec == DbInit /\ [][DbNext]_dbvars
-----------------------------------------------------------------------------
(***************************************************************************)
(* Properties.                                                             *)
(***************************************************************************)
Free(b) == wlock[b] = {}       \* nobody is changing the list

(* The lists are what they are taken for whenever nobody has them locked:  *)
(* chains of live records with one key each, in their own chain, and a     *)
(* free list of blank ones, with no record on two lists, no data record    *)
(* with two index records, and every key and its data as long as the       *)
(* record they were written over (db.c:478, 698, 782).                     *)
ListsSound ==
  /\ \A c \in 1 .. NHASH : Free(c) => \A n \in Trail(c) :
       /\ idx[n].key \in Keys /\ Hash[idx[n].key] = c /\ KeyLen[idx[n].key] = idx[n].klen
       /\ dat[idx[n].dat].data \in Data /\ DatLen[dat[idx[n].dat].data] = idx[n].len
       /\ \A m \in Trail(c) : idx[m].key = idx[n].key => m = n
  /\ Free(0) => \A n \in Trail(0) : idx[n].key = Blank
  /\ \A a, b \in 0 .. NHASH : a # b /\ Free(a) /\ Free(b) => Trail(a) \cap Trail(b) = {}
  /\ \A m, n \in DOMAIN idx : m # n => idx[m].dat # idx[n].dat

(* No space is lost: between calls every index record is on a list.        *)
SpaceAccounted ==
  (\A b \in 0 .. NHASH : Free(b)) => \A n \in DOMAIN idx : \E b \in 0 .. NHASH : n \in Trail(b)

(* A record rewritten in place fits: its neighbours are not written over   *)
(* (db.c:752, "the_correct_sizes").                                        *)
RecordsKeepSize ==
  [][\A n \in DOMAIN idx : n \in DOMAIN idx' =>
       idx'[n].klen = idx[n].klen /\ idx'[n].len = idx[n].len]_idx

(* db_nextrec returns a key with data that is stored under it, or that a   *)
(* call in progress is storing under it, never a record "in the middle of  *)
(* its being deleted" (db.c:845).                                          *)
NextrecWhole ==
  [][\A p \in Procs : where[p] = "next_data" /\ where'[p] = "idle" =>
       LET k == result'[p][1]
           d == result'[p][2]
       IN  \/ d = IF Free(Hash[k]) THEN Value(k) ELSE before[k]
           \/ \E q \in wlock[Hash[k]] : req[q].op # "delete" /\ req[q].key = k /\ req[q].data = d]_dbvars

(* To its callers the database is a map: fetches, stores and deletes of    *)
(* all processes take effect one at a time, and a process in the middle of *)
(* an update changes nothing that another can see.                         *)
InCall(p) == where[p] \notin {"closed", "create", "idle", "gone"} /\ req[p].op # "nextrec"

Store == INSTANCE KVStore WITH
  Requests <- Calls \cup {NoCall},
  map <- [k \in Keys |-> IF Free(Hash[k]) THEN Value(k) ELSE before[k]],
  request <- req,
  reply <- [p \in Procs |-> IF InCall(p) THEN Pending
                            ELSE IF req[p].op \in {"nextrec", "rewind"} THEN None
                            ELSE result[p]]

ImplementsStore == Store!Spec
=============================================================================
