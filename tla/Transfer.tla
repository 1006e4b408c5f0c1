------------------------------ MODULE Transfer ------------------------------
(***************************************************************************)
(* Uploads and downloads of several sessions on the same files: the PUT    *)
(* and GET handlers of HttpSession, with the DELETE, MOVE and COPY of      *)
(* single files that run between their steps.                              *)
(*                                                                         *)
(* All sessions are coroutines on one thread.  A handler is atomic between *)
(* two suspensions (co_await): PUT checks its conditions and truncates the *)
(* file in one step, then suspends for every piece of the body; GET sizes  *)
(* and opens the file in one step, then suspends for every piece it sends. *)
(*                                                                         *)
(* Data is counted in blocks: the piece of a body between two suspensions  *)
(* (64 KiB, or a chunk).  A block is named by the upload it came from.     *)
(***************************************************************************)
EXTENDS Naturals, Sequences

CONSTANTS
  Session,     \* the connections (a slot is used again after a close)
  File,        \* the file names; they live in directories that stay
  MaxBlocks,   \* bound: the longest body, in blocks
  MaxUploads,  \* bound: the uploads that are ever accepted
  MaxInode,    \* bound: the files that are ever created
  MaxTime,     \* bound: no change of a file begins after this time
  Second,      \* clock ticks in a second
  FineClock,   \* TRUE: no two changes of files fall into one clock tick
  DiskMayFill  \* TRUE: a write to the disk may fail

ASSUME TransferAssumption ==
  /\ MaxBlocks \in Nat /\ MaxUploads \in Nat /\ MaxInode \in Nat
  /\ MaxTime \in Nat
  /\ Second \in Nat \ {0}
  /\ FineClock \in BOOLEAN /\ DiskMayFill \in BOOLEAN

Inode   == 1 .. MaxInode
NoInode == 0
Hole    == 0              \* a block that was skipped over and reads as zeros
Older(i) == MaxUploads + i  \* the block that was in inode i at the start

VARIABLES
  dir,    \* the inode each file name leads to
  data,   \* the blocks of each inode
  stamp,  \* the modification time of each inode
  made,   \* the number of inodes created so far
  now,    \* the clock of the file system
  pc,     \* what each session does: "idle", "recv", "reply", "send", "closing"
  put,    \* the upload of a session in "recv"
  get,    \* the download of a session in "send"
  seen,   \* the entity tag a client last learned, and what it stood for
  log     \* every upload accepted so far (history)

files    == <<dir, data, stamp, made, now>>
sessions == <<pc, put, get, seen, log>>
vars     == <<dir, data, stamp, made, now, pc, put, get, seen, log>>

-----------------------------------------------------------------------------
(* Mutant: the modification time is left out of the tag.                   *)
TagOfSize(i) == [stamp |-> 0, size |-> Len(data[i])]

(* get_file_entry: the entity tag is made of modification time and size.   *)
Tag(i) == [stamp |-> stamp[i], size |-> Len(data[i])]
NoTag  == [stamp |-> 0, size |-> 0]

Present(f) == dir[f] # NoInode

(* The inode that opening f for writing leads to: the one it has, or a new *)
(* one (bound: MaxInode).                                                  *)
OpenedInode(f) == IF Present(f) THEN dir[f] ELSE made + 1

(* Blocks k of upload u are written at offset off, by a descriptor that    *)
(* does not append: past the end of the file a hole is left.               *)
Written(d, off, k, u) ==
  [j \in 1 .. (IF off + k > Len(d) THEN off + k ELSE Len(d)) |->
     IF j \in off + 1 .. off + k THEN u
     ELSE IF j <= Len(d) THEN d[j] ELSE Hole]

(* Inode i changes to d; the change is stamped with the clock, which may   *)
(* or must have advanced since the last change.                            *)
Modify(i, d) ==
  \E t \in IF FineClock THEN {now + 1} ELSE {now, now + 1} :
    /\ now' = t
    /\ stamp' = [stamp EXCEPT ![i] = t]
    /\ data' = [data EXCEPT ![i] = d]

NoPut == [id |-> 0, len |-> 0, got |-> 0, off |-> 0, pend |-> 0,
          bad |-> FALSE, alone |-> TRUE]
NoGet == [inode |-> NoInode, first |-> 0, len |-> 0, tag |-> NoTag, sent |-> << >>]

Writing(s, i) == pc[s] = "recv" /\ log[put[s].id].inode = i

(* Whoever is writing to inode i is from now on not alone with it.         *)
Disturb(i) ==
  [s \in Session |-> IF Writing(s, i) THEN [put[s] EXCEPT !.alone = FALSE] ELSE put[s]]

-----------------------------------------------------------------------------
(* Mutants: If-None-Match is not looked at; If-Match accepts any file.     *)
HoldsNotAbsent(s, f, cond) ==
  cond = "match" => Present(f) /\ Tag(dir[f]) = seen[s].tag
HoldsAnyMatch(s, f, cond) ==
  cond = "absent" => ~Present(f)

(* The conditions of process_put_request, for a client that sends what it  *)
(* last saw of a file.  If-Unmodified-Since compares whole seconds.        *)
Condition == {"none", "absent", "match", "since"}

Holds(s, f, cond) ==
  CASE cond = "none"   -> TRUE
    [] cond = "absent" -> ~Present(f)
    [] cond = "match"  -> Present(f) /\ Tag(dir[f]) = seen[s].tag
    [] cond = "since"  -> Present(f) => stamp[dir[f]] \div Second <= seen[s].tag.stamp \div Second

(* 412 and "Connection: close", then the handler throws: nothing changed.  *)
RefusePut(s, f, cond) ==
  /\ pc[s] = "idle"
  /\ ~Holds(s, f, cond)
  /\ pc' = [pc EXCEPT ![s] = "closing"]
  /\ UNCHANGED <<files, put, get, seen, log>>

(* Everything up to the first suspension: whether the file exists is noted *)
(* for the status of the answer, the conditions are checked, and opening   *)
(* the file truncates or creates it, before "100 Continue" is sent.        *)
AcceptPut(s, f, cond, len) ==
  /\ pc[s] = "idle"
  /\ Len(log) < MaxUploads /\ now < MaxTime
  /\ OpenedInode(f) \in Inode
  /\ Holds(s, f, cond)
  /\ LET i == OpenedInode(f)
     IN  /\ dir' = [dir EXCEPT ![f] = i]
         /\ made' = IF Present(f) THEN made ELSE i
         /\ Modify(i, << >>)
         /\ log' = Append(log, [inode |-> i, cond |-> cond, existing |-> Present(f),
                                lost |-> cond = "match" /\ data[i] # seen[s].data])
         /\ put' = [Disturb(i) EXCEPT ![s] =
                      [id |-> Len(log) + 1, len |-> len, got |-> 0, off |-> 0, pend |-> 0,
                       bad |-> FALSE, alone |-> \A t \in Session : ~Writing(t, i)]]
  /\ pc' = [pc EXCEPT ![s] = "recv"]
  /\ UNCHANGED <<get, seen>>

(* Mutant: what was written stays in the buffer.                           *)
FlushTwice(s, k, got) ==
  LET p == put[s]
      i == log[p.id].inode
  IN  \/ /\ k > 0 /\ ~p.bad
         /\ Modify(i, Written(data[i], p.off, k, p.id))
         /\ put' = [put EXCEPT ![s] = [p EXCEPT !.got = got, !.off = @ + k, !.pend = k]]
      \/ /\ k = 0 \/ p.bad
         /\ put' = [put EXCEPT ![s] = [p EXCEPT !.got = got]]
         /\ UNCHANGED <<data, stamp, now>>

(* Mutant: after a failed write the stream goes on behind it.              *)
FlushSkipping(s, k, got) ==
  LET p == put[s]
      i == log[p.id].inode
  IN  \/ /\ k > 0
         /\ Modify(i, Written(data[i], p.off, k, p.id))
         /\ put' = [put EXCEPT ![s] = [p EXCEPT !.got = got, !.off = @ + k, !.pend = 0]]
      \/ /\ k > 0 /\ DiskMayFill
         /\ put' = [put EXCEPT ![s] = [p EXCEPT !.got = got, !.off = @ + k, !.pend = 0]]
         /\ UNCHANGED <<data, stamp, now>>
      \/ /\ k = 0
         /\ put' = [put EXCEPT ![s] = [p EXCEPT !.got = got]]
         /\ UNCHANGED <<data, stamp, now>>

(* k blocks of the stream's buffer go to the file; if that fails, the      *)
(* stream is bad from then on and drops what it is given.  Nothing looks   *)
(* at its state.                                                           *)
Flush(s, k, got) ==
  LET p == put[s]
      i == log[p.id].inode
  IN  \/ /\ k > 0 /\ ~p.bad
         /\ Modify(i, Written(data[i], p.off, k, p.id))
         /\ put' = [put EXCEPT ![s] = [p EXCEPT !.got = got, !.off = @ + k, !.pend = 0]]
      \/ /\ k > 0 /\ ~p.bad /\ DiskMayFill
         /\ put' = [put EXCEPT ![s] = [p EXCEPT !.got = got, !.pend = 0, !.bad = TRUE]]
         /\ UNCHANGED <<data, stamp, now>>
      \/ /\ k = 0 \/ p.bad
         /\ put' = [put EXCEPT ![s] = [p EXCEPT !.got = got]]
         /\ UNCHANGED <<data, stamp, now>>

(* read_fixed_body and read_chunked_body: one more piece of the body has   *)
(* come; it stays in the stream's buffer if it is small.                   *)
ReceiveBlock(s) ==
  /\ pc[s] = "recv"
  /\ put[s].got < put[s].len
  /\ \/ Flush(s, put[s].pend + 1, put[s].got + 1)
     \/ /\ ~put[s].bad
        /\ put' = [put EXCEPT ![s].got = @ + 1, ![s].pend = @ + 1]
        /\ UNCHANGED <<data, stamp, now>>
  /\ UNCHANGED <<dir, made, pc, get, seen, log>>

(* Mutant: success is answered without closing the file.                   *)
FinishPutUnflushed(s) ==
  /\ pc[s] = "recv"
  /\ put[s].got = put[s].len
  /\ pc' = [pc EXCEPT ![s] = "reply"]
  /\ UNCHANGED <<files, put, get, seen, log>>

(* The body is complete: the file is closed, and 200 or 201 is on its way, *)
(* by what was found when the request came.                                *)
FinishPut(s) ==
  /\ pc[s] = "recv"
  /\ put[s].got = put[s].len
  /\ Flush(s, put[s].pend, put[s].got)
  /\ pc' = [pc EXCEPT ![s] = "reply"]
  /\ UNCHANGED <<dir, made, get, seen, log>>

ReplyToPut(s) ==
  /\ pc[s] = "reply"
  /\ pc' = [pc EXCEPT ![s] = "idle"]
  /\ put' = [put EXCEPT ![s] = NoPut]
  /\ UNCHANGED <<files, get, seen, log>>

(* The connection breaks, or the chunked body is malformed: the destructor *)
(* of the stream writes its buffer, and the partial file stays.            *)
AbortPut(s) ==
  /\ pc[s] = "recv"
  /\ Flush(s, put[s].pend, put[s].got)
  /\ pc' = [pc EXCEPT ![s] = "closing"]
  /\ UNCHANGED <<dir, made, get, seen, log>>

-----------------------------------------------------------------------------
(* A client learns the entity tag of f: HEAD, PROPFIND, or the header of   *)
(* the answer to a GET.                                                    *)
Look(s, f) ==
  /\ pc[s] = "idle"
  /\ Present(f)
  /\ seen' = [seen EXCEPT ![s] = [tag |-> Tag(dir[f]), data |-> data[dir[f]]]]
  /\ UNCHANGED <<files, pc, put, get, log>>

(* GET up to its first suspension: the whole file, or a range of len       *)
(* blocks of it, is promised in the header, together with the tag.         *)
OpenForRead(s, f, first, len) ==
  /\ pc[s] = "idle"
  /\ Present(f)
  /\ LET size == Len(data[dir[f]])
     IN  \/ first = 0 /\ len = size
         \/ len > 0 /\ first + len <= size
  /\ get' = [get EXCEPT ![s] = [inode |-> dir[f], first |-> first, len |-> len,
                                tag |-> Tag(dir[f]), sent |-> << >>]]
  /\ pc' = [pc EXCEPT ![s] = "send"]
  /\ UNCHANGED <<files, put, seen, log>>

(* write_fixed_body: the next block is read, and written to the client.    *)
NextBlock(s) == get[s].first + Len(get[s].sent) + 1

AtEnd(s) == NextBlock(s) > Len(data[get[s].inode])

SendBlock(s) ==
  /\ pc[s] = "send"
  /\ Len(get[s].sent) < get[s].len
  /\ ~AtEnd(s)
  /\ get' = [get EXCEPT ![s].sent = Append(@, data[get[s].inode][NextBlock(s)])]
  /\ UNCHANGED <<files, pc, put, seen, log>>

(* Mutant: a read that returns nothing does not end the loop.              *)
EndOfBodyOnlyWhole(s) == Len(get[s].sent) = get[s].len

(* All that was promised has been sent, or there is nothing more to read.  *)
(* Either way the session goes on to its next request.                     *)
EndOfBody(s) == Len(get[s].sent) = get[s].len \/ AtEnd(s)

FinishGet(s) ==
  /\ pc[s] = "send"
  /\ EndOfBody(s)
  /\ pc' = [pc EXCEPT ![s] = "idle"]
  /\ get' = [get EXCEPT ![s] = NoGet]
  /\ UNCHANGED <<files, put, seen, log>>

(* Writing to the client fails.                                            *)
Break(s) ==
  /\ pc[s] \in {"send", "reply"}
  /\ pc' = [pc EXCEPT ![s] = "closing"]
  /\ UNCHANGED <<files, put, get, seen, log>>

(* The exception is caught, the session stopped; the client may connect    *)
(* again, to a new one.                                                    *)
Close(s) ==
  /\ pc[s] = "closing"
  /\ pc' = [pc EXCEPT ![s] = "idle"]
  /\ put' = [put EXCEPT ![s] = NoPut]
  /\ get' = [get EXCEPT ![s] = NoGet]
  /\ UNCHANGED <<files, seen, log>>

-----------------------------------------------------------------------------
(* DELETE, MOVE and COPY of a file, whose own conditions are the subject   *)
(* of FileApi: an open descriptor keeps its inode.  fs::copy writes into   *)
(* the inode its destination has.                                          *)
Delete(s, f) ==
  /\ pc[s] = "idle"
  /\ Present(f)
  /\ dir' = [dir EXCEPT ![f] = NoInode]
  /\ UNCHANGED <<data, stamp, made, now, sessions>>

Move(s, f, g) ==
  /\ pc[s] = "idle"
  /\ Present(f)
  /\ f # g
  /\ dir' = [dir EXCEPT ![g] = dir[f], ![f] = NoInode]
  /\ UNCHANGED <<data, stamp, made, now, sessions>>

Copy(s, f, g) ==
  /\ pc[s] = "idle"
  /\ Present(f)
  /\ f # g
  /\ OpenedInode(g) \in Inode /\ now < MaxTime
  /\ dir' = [dir EXCEPT ![g] = OpenedInode(g)]
  /\ made' = IF Present(g) THEN made ELSE OpenedInode(g)
  /\ Modify(OpenedInode(g), data[dir[f]])
  /\ put' = Disturb(OpenedInode(g))
  /\ UNCHANGED <<pc, get, seen, log>>

-----------------------------------------------------------------------------
(* Any of the files may be there when the server starts.                   *)
Init ==
  /\ made \in 0 .. MaxInode
  /\ dir \in [File -> 0 .. made]
  /\ \A i \in 1 .. made : \E f \in File : dir[f] = i
  /\ \A f, g \in File : f # g /\ Present(f) => dir[f] # dir[g]
  /\ data = [i \in Inode |-> IF i <= made THEN <<Older(i)>> ELSE << >>]
  /\ stamp = [i \in Inode |-> IF i > made THEN 0 ELSE IF FineClock THEN i ELSE 1]
  /\ now = made + 1
  /\ pc = [s \in Session |-> "idle"]
  /\ put = [s \in Session |-> NoPut]
  /\ get = [s \in Session |-> NoGet]
  /\ seen = [s \in Session |-> [tag |-> NoTag, data |-> << >>]]
  /\ log = << >>

Upload(s) == ReceiveBlock(s) \/ FinishPut(s) \/ ReplyToPut(s)

Download(s) == SendBlock(s) \/ FinishGet(s)

Next ==
  \E s \in Session :
    \/ \E f \in File, cond \in Condition :
         \/ RefusePut(s, f, cond)
         \/ \E len \in 0 .. MaxBlocks : AcceptPut(s, f, cond, len)
    \/ Upload(s)
    \/ AbortPut(s)
    \/ \E f \in File : Look(s, f) \/ Delete(s, f)
    \/ \E f \in File, first \in 0 .. MaxBlocks, len \in 0 .. MaxBlocks :
         OpenForRead(s, f, first, len)
    \/ Download(s)
    \/ Break(s) \/ Close(s)
    \/ \E f, g \in File : Move(s, f, g) \/ Copy(s, f, g)

Spec == Init /\ [][Next]_vars

(* A client that goes on sending its body, and reading its answer, is      *)
(* served: the event loop resumes every coroutine whose I/O is done.       *)
Fairness ==
  \A s \in Session : WF_vars(Upload(s)) /\ WF_vars(Download(s)) /\ WF_vars(Close(s))

FairSpec == Spec /\ Fairness

-----------------------------------------------------------------------------
(* Every variable has a value of its kind, and what a session remembers of *)
(* its transfer stays within it.                                           *)
Blocks == Seq(0 .. Older(MaxInode))

TagType == [stamp : Nat, size : Nat]

TypeOK ==
  /\ dir \in [File -> 0 .. made]
  /\ made \in 0 .. MaxInode
  /\ data \in [Inode -> Blocks]
  /\ stamp \in [Inode -> 0 .. now]
  /\ now \in Nat
  /\ pc \in [Session -> {"idle", "recv", "reply", "send", "closing"}]
  /\ put \in [Session -> [id : 0 .. Len(log), len : Nat, got : Nat, off : Nat, pend : Nat,
                          bad : BOOLEAN, alone : BOOLEAN]]
  /\ get \in [Session -> [inode : 0 .. made, first : Nat, len : Nat, tag : TagType,
                          sent : Blocks]]
  /\ seen \in [Session -> [tag : TagType, data : Blocks]]
  /\ log \in Seq([inode : 1 .. made, cond : Condition, existing : BOOLEAN,
                  lost : BOOLEAN])
  /\ \A s \in Session :
       pc[s] = "recv" =>
         /\ put[s].id # 0
         /\ put[s].got <= put[s].len
         /\ put[s].bad \/ put[s].off + put[s].pend = put[s].got
  /\ \A s \in Session : pc[s] = "send" => get[s].inode # NoInode

(* "If-None-Match: *" creates: whatever the order of the sessions, an      *)
(* upload accepted under it is the first of all uploads to its file, and   *)
(* no two uploads to one file will both answer 201 (process_put_request    *)
(* has no suspension between is_exists and the opening of the file).       *)
ExclusiveCreate ==
  \A u, v \in DOMAIN log :
    u # v /\ log[u].inode = log[v].inode =>
      /\ log[v].cond = "absent" => v < u
      /\ log[u].existing \/ log[v].existing

(* "If-Match" prevents the lost update: what an upload accepted under it   *)
(* overwrites is exactly what its client last saw, also when other         *)
(* sessions upload, move and copy files in between.                        *)
NoLostUpdate == \A u \in DOMAIN log : ~log[u].lost

(* An upload that nobody else disturbed and that met no full disk is whole *)
(* when it is answered: the file it opened holds the body, all of it and   *)
(* nothing else, even if it was renamed or deleted meanwhile.              *)
Body(u, len) == [k \in 1 .. len |-> u]

Answered(s) == pc[s] = "recv" /\ pc'[s] = "reply"

UploadIntact ==
  [][\A s \in Session :
       Answered(s) /\ put[s].alone /\ ~put'[s].bad
         => data'[log[put[s].id].inode] = Body(put[s].id, put[s].len)]_vars

(* An upload that is cut short leaves the beginning of its body: whenever  *)
(* its client goes away, and also when the disk fills, the file an         *)
(* undisturbed upload opened holds the first blocks of the body, in order, *)
(* nothing of what it held before and no hole.                             *)
PartIsPrefix ==
  [][\A s \in Session :
       LET p == put'[s]
       IN  pc[s] = "recv" /\ p.id = put[s].id /\ p.alone
             => data'[log[p.id].inode] = Body(p.id, p.off) /\ p.off <= p.got]_vars

(* The entity tag stands for the bytes sent with it: as long as the file   *)
(* still has the tag that was promised, all that was sent is its content   *)
(* and the rest of the promised range is still there to be read.           *)
EtagNamesBody ==
  \A s \in Session :
    pc[s] = "send" /\ get[s].tag = Tag(get[s].inode) =>
      LET g == get[s]
      IN  /\ g.first + g.len <= Len(data[g.inode])
          /\ g.sent = SubSeq(data[g.inode], g.first + 1, g.first + Len(g.sent))

(* If the file does change under a download, the rest of the answer is the *)
(* new content, under the old tag.  The client can tell: from then on the  *)
(* file's tag is another than the promised one, and no later change brings *)
(* that one back.                                                          *)
Outdated(s) == get[s].tag # Tag(get[s].inode)

EtagTellsChange ==
  [][\A s \in Session :
       LET i == get[s].inode
       IN  /\ pc[s] = "send" /\ pc'[s] = "send"
           /\ Outdated(s) \/ data'[i] # data[i]
           => Outdated(s)']_vars

(* Every transfer whose client does its part ends, whatever the others do  *)
(* to its file meanwhile.                                                  *)
TransfersEnd ==
  \A s \in Session : pc[s] # "idle" ~> pc[s] = "idle"

-----------------------------------------------------------------------------
(* What the documentation leads one to expect, and the code does not do.   *)

(* "File upload/overwrite: PUT" (README.md:8): a file that nobody is       *)
(* writing holds the body of one upload, not pieces of several.            *)
UploadsDoNotMix ==
  \A f \in File :
    Present(f) /\ (\A s \in Session : ~Writing(s, dir[f])) =>
      \A j, k \in DOMAIN data[dir[f]] : data[dir[f]][j] = data[dir[f]][k]

(* An upload answered with success was stored.                             *)
OkMeansStored ==
  [][\A s \in Session :
       Answered(s) /\ put[s].alone
         => data'[log[put[s].id].inode] = Body(put[s].id, put[s].len)]_vars

(* "A valid range request returns 206 Partial Content with Content-Range"  *)
(* (README.md:115): a session that goes on to its next request has sent    *)
(* all the bytes that the header promised.                                 *)
PromiseKept ==
  [][\A s \in Session :
       pc[s] = "send" /\ pc'[s] = "idle" => Len(get[s].sent) = get[s].len]_vars
=============================================================================
