--------------------------- MODULE TransferProofs ---------------------------
(***************************************************************************)
(* What Transfer promises, for any number of sessions, files and blocks:   *)
(* its types, the exclusive creation of files, the lost update, entity     *)
(* tags, and uploads that nobody disturbs.                                 *)
(***************************************************************************)
EXTENDS Transfer, SequenceTheorems, TLAPS

-----------------------------------------------------------------------------
(* The operators on data.                                                  *)
Block == 0 .. Older(MaxInode)

LEMMA BlockIsNat == /\ Older(MaxInode) \in Nat
                    /\ MaxUploads \in Nat /\ MaxInode \in Nat
                    /\ 0 .. MaxUploads \subseteq Block
                    /\ Hole \in Block
BY TransferAssumption DEF Older, Block, Hole

LEMMA DataIsSeq == \A d \in Blocks : /\ Len(d) \in Nat
                                     /\ d \in [1 .. Len(d) -> Block]
BY LenProperties DEF Blocks, Block

(* Writing to the data of a file gives data; what is written is found at   *)
(* its offset, the rest is as it was.                                      *)
LEMMA WrittenIsData ==
  ASSUME NEW d \in Blocks, NEW off \in Nat, NEW k \in Nat, NEW u \in Block
  PROVE  Written(d, off, k, u) \in Blocks
<1> DEFINE n == IF off + k > Len(d) THEN off + k ELSE Len(d)
<1> DEFINE e(j) == IF j \in off + 1 .. off + k THEN u
                   ELSE IF j <= Len(d) THEN d[j] ELSE Hole
<1>1. n \in Nat
  BY DataIsSeq
<1>2. \A j \in 1 .. n : e(j) \in Block
  BY DataIsSeq, BlockIsNat
<1> HIDE DEF n, e
<1>3. [j \in 1 .. n |-> e(j)] \in [1 .. n -> Block]
  BY <1>2
<1>4. [j \in 1 .. n |-> e(j)] \in Seq(Block)
  BY <1>1, <1>3, SeqDef
<1> QED
  BY <1>4 DEF Written, Blocks, Block, n, e

(* The beginning of an upload, continued where it ends, is a longer        *)
(* beginning of it.                                                        *)
LEMMA BodyGrows ==
  ASSUME NEW u, NEW off \in Nat, NEW k \in Nat
  PROVE  Written(Body(u, off), off, k, u) = Body(u, off + k)
<1>1. Len(Body(u, off)) = off
  BY DEF Body
<1>2. (IF off + k > off THEN off + k ELSE off) = off + k
  OBVIOUS
<1>3. \A j \in 1 .. off + k :
        (IF j \in off + 1 .. off + k THEN u
         ELSE IF j <= off THEN Body(u, off)[j] ELSE Hole) = u
  BY DEF Body
<1> QED
  BY <1>1, <1>2, <1>3, Zenon DEF Written, Body

LEMMA BodyOfNothing == \A u : Body(u, 0) = << >>
BY DEF Body

-----------------------------------------------------------------------------
(* The types of the state fall into parts; most steps touch one or two.    *)
(* The number of uploads is bounded, so that a block can name its upload.  *)
UploadType(n) == [id : 0 .. n, len : Nat, got : Nat, off : Nat, pend : Nat,
                  bad : BOOLEAN, alone : BOOLEAN]
DownloadType  == [inode : 0 .. made, first : Nat, len : Nat, tag : TagType, sent : Blocks]
LogType       == [inode : 1 .. made, cond : Condition, existing : BOOLEAN, lost : BOOLEAN]

FilesTyped ==
  /\ dir \in [File -> 0 .. made]
  /\ made \in 0 .. MaxInode
  /\ data \in [Inode -> Blocks]
  /\ stamp \in [Inode -> 0 .. now]
  /\ now \in Nat

Fits(s) ==
  pc[s] = "recv" =>
    /\ put[s].id # 0
    /\ put[s].got <= put[s].len
    /\ put[s].bad \/ put[s].off + put[s].pend = put[s].got

UploadsTyped ==
  /\ put \in [Session -> UploadType(Len(log))]
  /\ \A s \in Session : Fits(s)
  /\ log \in Seq(LogType)
  /\ Len(log) <= MaxUploads

DownloadsTyped ==
  /\ get \in [Session -> DownloadType]
  /\ \A s \in Session : pc[s] = "send" => get[s].inode # NoInode

SeenTyped == seen \in [Session -> [tag : TagType, data : Blocks]]
PcTyped   == pc \in [Session -> {"idle", "recv", "reply", "send", "closing"}]

Types == FilesTyped /\ UploadsTyped /\ DownloadsTyped /\ SeenTyped /\ PcTyped

LEMMA TypesAreTypeOK == Types => TypeOK
BY DEF Types, TypeOK, FilesTyped, UploadsTyped, DownloadsTyped, SeenTyped, PcTyped,
       UploadType, DownloadType, LogType, Fits

LEMMA LogIsSeq ==
  ASSUME Types
  PROVE  /\ Len(log) \in 0 .. MaxUploads
         /\ DOMAIN log = 1 .. Len(log)
         /\ \A u \in 1 .. Len(log) :
              log[u] \in LogType
<1>1. log \in Seq(LogType)
  BY DEF Types, UploadsTyped
<1>2. Len(log) \in Nat /\ DOMAIN log = 1 .. Len(log)
  BY <1>1, LenProperties
<1>3. \A u \in 1 .. Len(log) :
        log[u] \in LogType
  BY <1>1, ElementOfSeq
<1> QED
  BY <1>2, <1>3, BlockIsNat DEF Types, UploadsTyped

(* The inode an upload goes to has been created.                           *)
LEMMA InodeOfUpload ==
  ASSUME Types, NEW s \in Session, pc[s] = "recv"
  PROVE  /\ put[s] \in UploadType(Len(log))
         /\ put[s].id \in 1 .. Len(log)
         /\ put[s].id \in Block
         /\ log[put[s].id].inode \in 1 .. made
         /\ log[put[s].id].inode \in Inode
         /\ Fits(s)
<1>1. /\ put[s] \in UploadType(Len(log))
      /\ Fits(s)
      /\ made \in 0 .. MaxInode
  BY DEF Types, UploadsTyped, FilesTyped
<1>2. Len(log) \in 0 .. MaxUploads
  BY LogIsSeq
<1>3. put[s].id \in 1 .. Len(log)
  BY <1>1, <1>2 DEF UploadType, Fits
<1>4. put[s].id \in Block
  BY <1>2, <1>3, BlockIsNat
<1>5. log[put[s].id].inode \in 1 .. made
  BY <1>3, LogIsSeq DEF LogType
<1> QED
  BY <1>1, <1>3, <1>4, <1>5, BlockIsNat DEF Inode

(* A change of one file.                                                   *)
LEMMA ModifyChanges ==
  ASSUME Types, NEW i \in Inode, NEW d \in Blocks, Modify(i, d)
  PROVE  /\ now' \in Nat /\ now <= now'
         /\ FineClock => now' = now + 1
         /\ stamp' \in [Inode -> 0 .. now']
         /\ data' \in [Inode -> Blocks]
         /\ stamp'[i] = now' /\ data'[i] = d
         /\ \A j \in Inode \ {i} : stamp'[j] = stamp[j] /\ data'[j] = data[j]
<1>1. /\ now \in Nat
      /\ stamp \in [Inode -> 0 .. now]
      /\ data \in [Inode -> Blocks]
  BY DEF Types, FilesTyped
<1>2. PICK t \in IF FineClock THEN {now + 1} ELSE {now, now + 1} :
        /\ now' = t
        /\ stamp' = [stamp EXCEPT ![i] = t]
        /\ data' = [data EXCEPT ![i] = d]
  BY DEF Modify
<1>3. now' \in Nat /\ now <= now' /\ (FineClock => now' = now + 1)
  BY <1>1, <1>2
<1>4. \A j \in Inode : stamp[j] \in 0 .. now'
  BY <1>1, <1>3
<1> QED
  BY <1>1, <1>2, <1>3, <1>4

(* What writing the buffer of an upload does: its blocks reach the file,   *)
(* or nothing of the file changes and either the stream is bad or there    *)
(* was nothing to write.                                                   *)
LEMMA FlushEffect ==
  ASSUME Types, NEW s \in Session, pc[s] = "recv",
         NEW k \in Nat, NEW got \in Nat, Flush(s, k, got)
  PROVE  LET p == put[s]
             q == put'[s]
             i == log[p.id].inode
         IN  /\ put' = [put EXCEPT ![s] = q]
             /\ q \in UploadType(Len(log))
             /\ q.id = p.id /\ q.len = p.len /\ q.alone = p.alone /\ q.got = got
             /\ \/ /\ Modify(i, Written(data[i], p.off, k, p.id))
                   /\ Written(data[i], p.off, k, p.id) \in Blocks
                   /\ ~p.bad /\ q.off = p.off + k /\ q.pend = 0
                \/ /\ UNCHANGED <<data, stamp, now>>
                   /\ q.off = p.off
                   /\ q.bad \/ (k = 0 /\ q.pend = p.pend /\ ~p.bad)
<1> DEFINE p == put[s]
           q == put'[s]
           i == log[p.id].inode
<1>0. Len(log) \in Nat /\ 0 \in Nat
  BY LogIsSeq, BlockIsNat
<1>1. /\ p \in UploadType(Len(log))
      /\ p.id \in Block
      /\ i \in Inode
  BY InodeOfUpload
<1>2. put \in [Session -> UploadType(Len(log))] /\ data[i] \in Blocks
  BY <1>1 DEF Types, UploadsTyped, FilesTyped
<1>3. p.off \in Nat /\ p.bad \in BOOLEAN
  BY <1>1 DEF UploadType
<1>4. Written(data[i], p.off, k, p.id) \in Blocks
  BY <1>1, <1>2, <1>3, WrittenIsData
<1> HIDE DEF p, q, i
<1>5. CASE /\ k > 0 /\ ~p.bad
           /\ Modify(i, Written(data[i], p.off, k, p.id))
           /\ put' = [put EXCEPT ![s] = [p EXCEPT !.got = got, !.off = @ + k, !.pend = 0]]
  <2>1. q = [p EXCEPT !.got = got, !.off = @ + k, !.pend = 0]
    BY <1>2, <1>5 DEF q
  <2>2. q \in UploadType(Len(log)) /\ q.id = p.id /\ q.len = p.len /\ q.alone = p.alone
        /\ q.got = got /\ q.off = p.off + k /\ q.pend = 0
    <3>1. q \in UploadType(Len(log))
      BY <2>1, <1>1, <1>0, <1>3, p.off + k \in Nat DEF UploadType
    <3>2. q.id = p.id /\ q.len = p.len /\ q.alone = p.alone
      BY <2>1, <1>1, Zenon DEF UploadType
    <3>3. q.got = got /\ q.off = p.off + k /\ q.pend = 0
      BY <2>1, <1>1, Zenon DEF UploadType
    <3> QED
      BY <3>1, <3>2, <3>3
  <2>3. put' = [put EXCEPT ![s] = q]
    BY <2>1, <1>5
  <2> QED
    BY <2>2, <2>3, <1>5, <1>4 DEF p, q, i
<1>6. CASE /\ k > 0 /\ ~p.bad
           /\ put' = [put EXCEPT ![s] = [p EXCEPT !.got = got, !.pend = 0, !.bad = TRUE]]
           /\ UNCHANGED <<data, stamp, now>>
  <2>1. q = [p EXCEPT !.got = got, !.pend = 0, !.bad = TRUE]
    BY <1>2, <1>6 DEF q
  <2>2. q \in UploadType(Len(log)) /\ q.id = p.id /\ q.len = p.len /\ q.alone = p.alone
        /\ q.got = got /\ q.off = p.off /\ q.bad
    <3>1. q \in UploadType(Len(log))
      BY <2>1, <1>1, <1>0 DEF UploadType
    <3>2. q.id = p.id /\ q.len = p.len /\ q.alone = p.alone
      BY <2>1, <1>1, Zenon DEF UploadType
    <3>3. q.got = got /\ q.off = p.off /\ q.bad
      BY <2>1, <1>1, Zenon DEF UploadType
    <3> QED
      BY <3>1, <3>2, <3>3
  <2>3. put' = [put EXCEPT ![s] = q]
    BY <2>1, <1>6
  <2> QED
    BY <2>2, <2>3, <1>6 DEF p, q, i
<1>7. CASE /\ k = 0 \/ p.bad
           /\ put' = [put EXCEPT ![s] = [p EXCEPT !.got = got]]
           /\ UNCHANGED <<data, stamp, now>>
  <2>1. q = [p EXCEPT !.got = got]
    BY <1>2, <1>7 DEF q
  <2>2. q \in UploadType(Len(log)) /\ q.id = p.id /\ q.len = p.len /\ q.alone = p.alone
        /\ q.got = got /\ q.off = p.off /\ q.pend = p.pend /\ q.bad = p.bad
    BY <2>1, <1>1 DEF UploadType
  <2>3. put' = [put EXCEPT ![s] = q]
    BY <2>1, <1>7
  <2> QED
    BY <2>2, <2>3, <1>7 DEF p, q, i
<1> QED
  BY <1>5, <1>6, <1>7 DEF Flush, p, q, i

-----------------------------------------------------------------------------
(* The parts a step leaves alone.                                          *)
LEMMA PartsUnchanged ==
  /\ FilesTyped /\ UNCHANGED files => FilesTyped'
  /\ UploadsTyped /\ UNCHANGED <<pc, put, log, made>> => UploadsTyped'
  /\ DownloadsTyped /\ UNCHANGED <<pc, get, made>> => DownloadsTyped'
  /\ SeenTyped /\ UNCHANGED seen => SeenTyped'
BY DEF FilesTyped, UploadsTyped, DownloadsTyped, SeenTyped, files, Fits, UploadType, LogType,
       DownloadType

(* A session that is neither receiving nor sending afterwards has nothing  *)
(* to remember.                                                            *)
LEMMA LeavesTransfer ==
  ASSUME Types, NEW s \in Session, NEW c \in {"idle", "reply", "closing"},
         pc' = [pc EXCEPT ![s] = c], UNCHANGED made
  PROVE  /\ PcTyped'
         /\ UNCHANGED <<put, log>> => UploadsTyped'
         /\ put' = [put EXCEPT ![s] = NoPut] /\ UNCHANGED log => UploadsTyped'
         /\ UNCHANGED get => DownloadsTyped'
         /\ get' = [get EXCEPT ![s] = NoGet] => DownloadsTyped'
<1> USE DEF Types, PcTyped
<1>1. PcTyped'
  OBVIOUS
<1>2. /\ pc'[s] # "recv" /\ pc'[s] # "send"
      /\ \A t \in Session \ {s} : pc'[t] = pc[t]
  OBVIOUS
<1>3. NoPut \in UploadType(Len(log)) /\ NoGet \in DownloadType
  <2>1. Len(log) \in Nat /\ made \in Nat
    BY LogIsSeq, BlockIsNat DEF FilesTyped
  <2>2. << >> \in Blocks
    BY EmptySeq DEF Blocks
  <2> QED
    BY <2>1, <2>2 DEF NoPut, NoGet, UploadType, DownloadType, TagType, NoTag, NoInode
<1>4. ASSUME UNCHANGED <<put, log>> PROVE UploadsTyped'
  BY <1>2, <1>4 DEF UploadsTyped, Fits, UploadType, LogType
<1>5. ASSUME put' = [put EXCEPT ![s] = NoPut], UNCHANGED log PROVE UploadsTyped'
  <2>1. put' \in [Session -> UploadType(Len(log))]
    BY <1>3, <1>5 DEF UploadsTyped
  <2>2. \A t \in Session \ {s} : put'[t] = put[t]
    BY <1>5 DEF UploadsTyped
  <2> QED
    BY <2>1, <2>2, <1>2, <1>5 DEF UploadsTyped, Fits, UploadType, LogType
<1>6. ASSUME UNCHANGED get PROVE DownloadsTyped'
  BY <1>2, <1>6 DEF DownloadsTyped, DownloadType
<1>7. ASSUME get' = [get EXCEPT ![s] = NoGet] PROVE DownloadsTyped'
  <2>1. get' \in [Session -> DownloadType]
    BY <1>3, <1>7 DEF DownloadsTyped
  <2>2. \A t \in Session \ {s} : get'[t] = get[t]
    BY <1>7 DEF DownloadsTyped
  <2> QED
    BY <2>1, <2>2, <1>2 DEF DownloadsTyped, DownloadType
<1> QED
  BY <1>1, <1>4, <1>5, <1>6, <1>7

LEMMA QuietTypes ==
  ASSUME Types, NEW s \in Session,
         (\E f \in File, cond \in Condition : RefusePut(s, f, cond)) \/ ReplyToPut(s) \/ FinishGet(s) \/ Break(s) \/ Close(s)
  PROVE  Types'
<1>1. ASSUME NEW f \in File, NEW cond \in Condition, RefusePut(s, f, cond) PROVE Types'
  BY <1>1, LeavesTransfer, PartsUnchanged DEF Types, RefusePut, files
<1>2. CASE ReplyToPut(s)
  BY <1>2, LeavesTransfer, PartsUnchanged DEF Types, ReplyToPut, files
<1>3. CASE FinishGet(s)
  BY <1>3, LeavesTransfer, PartsUnchanged DEF Types, FinishGet, files
<1>4. CASE Break(s)
  BY <1>4, LeavesTransfer, PartsUnchanged DEF Types, Break, files
<1>5. CASE Close(s)
  BY <1>5, LeavesTransfer, PartsUnchanged DEF Types, Close, files
<1> QED
  BY <1>1, <1>2, <1>3, <1>4, <1>5

LEMMA TagIsTag == ASSUME Types, NEW i \in Inode PROVE Tag(i) \in TagType
<1>1. stamp[i] \in Nat /\ Len(data[i]) \in Nat
  BY DataIsSeq DEF Types, FilesTyped
<1> QED
  BY <1>1 DEF Tag, TagType

LEMMA PresentInode ==
  ASSUME Types, NEW f \in File, Present(f)
  PROVE  dir[f] \in 1 .. made /\ dir[f] \in Inode
BY BlockIsNat DEF Types, FilesTyped, Present, NoInode, Inode

LEMMA NameTypes ==
  ASSUME Types, NEW s \in Session, NEW f \in File, NEW g \in File,
         Look(s, f) \/ Delete(s, f) \/ Move(s, f, g)
  PROVE  Types'
<1> USE DEF Types
<1>1. CASE Look(s, f)
  <2>1. [tag |-> Tag(dir[f]), data |-> data[dir[f]]] \in [tag : TagType, data : Blocks]
    BY <1>1, PresentInode, TagIsTag DEF Look, FilesTyped
  <2>2. SeenTyped'
    BY <2>1, <1>1 DEF Look, SeenTyped
  <2> QED
    BY <2>2, <1>1, PartsUnchanged DEF Look, files, PcTyped
<1>2. CASE Delete(s, f)
  <2>1. FilesTyped'
    BY <1>2, BlockIsNat DEF Delete, FilesTyped, NoInode
  <2> QED
    BY <2>1, <1>2, PartsUnchanged DEF Delete, sessions, PcTyped
<1>3. CASE Move(s, f, g)
  <2>1. FilesTyped'
    BY <1>3, BlockIsNat DEF Move, FilesTyped, NoInode
  <2> QED
    BY <2>1, <1>3, PartsUnchanged DEF Move, sessions, PcTyped
<1> QED
  BY <1>1, <1>2, <1>3

(* Downloads.                                                              *)
LEMMA NextBlockOfFile ==
  ASSUME Types, NEW s \in Session, pc[s] = "send", ~AtEnd(s)
  PROVE  /\ get[s] \in DownloadType
         /\ get[s].inode \in 1 .. made /\ get[s].inode \in Inode
         /\ get[s].first \in Nat /\ Len(get[s].sent) \in Nat
         /\ NextBlock(s) = get[s].first + Len(get[s].sent) + 1
         /\ NextBlock(s) \in 1 .. Len(data[get[s].inode])
         /\ data[get[s].inode][NextBlock(s)] \in Block
<1>1. get[s] \in DownloadType /\ get[s].inode # NoInode /\ made \in 0 .. MaxInode
  BY DEF Types, DownloadsTyped, FilesTyped
<1>2. get[s].inode \in 1 .. made /\ get[s].inode \in Inode
  BY <1>1, BlockIsNat DEF DownloadType, NoInode, Inode
<1>3. get[s].first \in Nat /\ Len(get[s].sent) \in Nat
  BY <1>1, DataIsSeq DEF DownloadType
<1>4. data[get[s].inode] \in Blocks
  BY <1>2 DEF Types, FilesTyped
<1>5. NextBlock(s) \in 1 .. Len(data[get[s].inode])
  <2>1. Len(data[get[s].inode]) \in Nat
    BY <1>4, DataIsSeq
  <2>2. NextBlock(s) \in Nat \ {0}
    BY <1>3 DEF NextBlock
  <2> QED
    BY <2>1, <2>2 DEF AtEnd
<1> QED
  BY <1>1, <1>2, <1>3, <1>4, <1>5, DataIsSeq DEF NextBlock

LEMMA OpenTypes ==
  ASSUME Types, NEW s \in Session, NEW f \in File, NEW first \in Nat, NEW len \in Nat,
         OpenForRead(s, f, first, len)
  PROVE  Types'
<1> DEFINE g == [inode |-> dir[f], first |-> first, len |-> len, tag |-> Tag(dir[f]),
                 sent |-> << >>]
<1>1. /\ dir[f] \in 1 .. made /\ Tag(dir[f]) \in TagType
      /\ << >> \in Blocks
      /\ made \in Nat
  BY PresentInode, TagIsTag, EmptySeq DEF OpenForRead, Blocks, Types, FilesTyped
<1>2. g \in DownloadType /\ g.inode # NoInode
  BY <1>1 DEF DownloadType, NoInode
<1> HIDE DEF g
<1>3. /\ get' = [get EXCEPT ![s] = g] /\ pc' = [pc EXCEPT ![s] = "send"]
      /\ UNCHANGED <<files, put, seen, log>>
  BY DEF OpenForRead, g
<1>4. DownloadsTyped'
  BY <1>2, <1>3 DEF Types, DownloadsTyped, DownloadType, PcTyped, files
<1>5. PcTyped' /\ UploadsTyped'
  BY <1>3 DEF Types, PcTyped, UploadsTyped, Fits, UploadType, LogType, files
<1> QED
  BY <1>3, <1>4, <1>5, PartsUnchanged DEF Types

LEMMA SendTypes ==
  ASSUME Types, NEW s \in Session, SendBlock(s)
  PROVE  Types'
<1> DEFINE b == data[get[s].inode][NextBlock(s)]
           g == [get[s] EXCEPT !.sent = Append(@, b)]
<1>1. /\ b \in Block
      /\ get[s] \in DownloadType
  BY NextBlockOfFile DEF SendBlock
<1>2. Append(get[s].sent, b) \in Blocks
  BY <1>1, AppendProperties DEF DownloadType, Blocks, Block
<1>3. g \in DownloadType /\ g.inode = get[s].inode
  BY <1>1, <1>2 DEF DownloadType
<1>4. /\ get' = [get EXCEPT ![s] = g]
      /\ UNCHANGED <<files, pc, put, seen, log>>
  BY DEF SendBlock
<1> HIDE DEF g
<1>5. DownloadsTyped'
  BY <1>3, <1>4 DEF Types, DownloadsTyped, DownloadType, files
<1> QED
  BY <1>4, <1>5, PartsUnchanged DEF Types, PcTyped, files

(* Uploads: a piece of the body comes, and whatever ends an upload.        *)
LEMMA FlushTypes ==
  ASSUME Types, NEW s \in Session, pc[s] = "recv", NEW k \in Nat, NEW got \in Nat,
         Flush(s, k, got), UNCHANGED <<dir, made, log>>,
         pc'[s] = "recv" => got <= put[s].len /\ (~put[s].bad => got = put[s].off + k /\ k > 0),
         \A t \in Session \ {s} : pc'[t] = pc[t]
  PROVE  FilesTyped' /\ UploadsTyped'
<1> DEFINE p == put[s]
           q == put'[s]
           i == log[p.id].inode
<1>1. /\ put' = [put EXCEPT ![s] = q]
      /\ q \in UploadType(Len(log))
      /\ q.id = p.id /\ q.len = p.len /\ q.alone = p.alone /\ q.got = got
      /\ \/ /\ Modify(i, Written(data[i], p.off, k, p.id))
            /\ Written(data[i], p.off, k, p.id) \in Blocks
            /\ ~p.bad /\ q.off = p.off + k /\ q.pend = 0
         \/ /\ UNCHANGED <<data, stamp, now>>
            /\ q.off = p.off
            /\ q.bad \/ (k = 0 /\ q.pend = p.pend /\ ~p.bad)
  BY FlushEffect
<1>2. i \in Inode /\ p \in UploadType(Len(log)) /\ Fits(s)
  BY InodeOfUpload
<1> HIDE DEF p, q, i
<1>3. FilesTyped'
  <2>1. CASE UNCHANGED <<data, stamp, now>>
    BY <2>1 DEF Types, FilesTyped
  <2>2. CASE Modify(i, Written(data[i], p.off, k, p.id))
             /\ Written(data[i], p.off, k, p.id) \in Blocks
    BY <2>2, <1>2, ModifyChanges DEF Types, FilesTyped
  <2> QED
    BY <2>1, <2>2, <1>1
<1>4. Fits(s)'
  <2>1. SUFFICES ASSUME pc'[s] = "recv"
                 PROVE  q.id # 0 /\ q.got <= q.len /\ (q.bad \/ q.off + q.pend = q.got)
    BY DEF Fits, q
  <2>2. p.id # 0 /\ p.off \in Nat
    BY <1>2 DEF Fits, p, UploadType
  <2>3. got <= p.len /\ (~p.bad => got = p.off + k /\ k > 0)
    BY <2>1 DEF p
  <2> QED
    BY <2>2, <2>3, <1>1
<1>5. \A t \in Session \ {s} : Fits(t)'
  <2>1. \A t \in Session \ {s} : put'[t] = put[t]
    BY <1>1 DEF Types, UploadsTyped
  <2> QED
    BY <2>1 DEF Types, UploadsTyped, Fits
<1>6. UploadsTyped'
  <2>1. put' \in [Session -> UploadType(Len(log))]
    BY <1>1 DEF Types, UploadsTyped
  <2> QED
    BY <2>1, <1>4, <1>5 DEF Types, UploadsTyped, UploadType, LogType
<1> QED
  BY <1>3, <1>6

LEMMA UploadTypes ==
  ASSUME Types, NEW s \in Session, ReceiveBlock(s) \/ FinishPut(s) \/ AbortPut(s)
  PROVE  Types'
<1>1. /\ pc[s] = "recv"
      /\ put[s] \in UploadType(Len(log)) /\ Fits(s)
      /\ put[s].pend \in Nat /\ put[s].got \in Nat /\ put[s].off \in Nat /\ put[s].len \in Nat
  BY InodeOfUpload DEF ReceiveBlock, FinishPut, AbortPut, UploadType
<1>2. CASE FinishPut(s) \/ AbortPut(s)
  <2>1. /\ Flush(s, put[s].pend, put[s].got)
        /\ UNCHANGED <<dir, made, get, seen, log>>
    BY <1>2 DEF FinishPut, AbortPut
  <2>2. /\ PcTyped' /\ pc'[s] # "recv"
        /\ \A t \in Session \ {s} : pc'[t] = pc[t]
        /\ \A t \in Session : pc'[t] = "send" => pc[t] = "send"
    BY <1>2 DEF FinishPut, AbortPut, Types, PcTyped
  <2>3. FilesTyped' /\ UploadsTyped'
    BY <1>1, <2>1, <2>2, FlushTypes
  <2>4. DownloadsTyped'
    BY <2>1, <2>2 DEF Types, DownloadsTyped, DownloadType
  <2> QED
    BY <2>1, <2>2, <2>3, <2>4, PartsUnchanged DEF Types
<1>3. CASE ReceiveBlock(s)
  <2>1. /\ put[s].got < put[s].len
        /\ UNCHANGED <<dir, made, pc, get, seen, log>>
    BY <1>3 DEF ReceiveBlock
  <2>2. CASE Flush(s, put[s].pend + 1, put[s].got + 1)
    <3>1. put[s].got + 1 <= put[s].len
          /\ (~put[s].bad => put[s].got + 1 = put[s].off + (put[s].pend + 1))
      BY <1>1, <2>1, SMTT(60) DEF Fits
    <3>2. put[s].pend + 1 \in Nat /\ put[s].pend + 1 > 0 /\ put[s].got + 1 \in Nat
      BY <1>1
    <3>3. FilesTyped' /\ UploadsTyped'
      BY <1>1, <2>1, <2>2, <3>1, <3>2, FlushTypes
    <3> QED
      BY <2>1, <3>3, PartsUnchanged DEF Types, PcTyped
  <2>3. CASE /\ ~put[s].bad
             /\ put' = [put EXCEPT ![s].got = @ + 1, ![s].pend = @ + 1]
             /\ UNCHANGED <<data, stamp, now>>
    <3> DEFINE q == [put[s] EXCEPT !.got = @ + 1, !.pend = @ + 1]
    <3>1. put' = [put EXCEPT ![s] = q]
      BY <2>3 DEF Types, UploadsTyped
    <3>2. q \in UploadType(Len(log))
      <4>1. put[s].got + 1 \in Nat /\ put[s].pend + 1 \in Nat
        BY <1>1
      <4> QED
        BY <1>1, <4>1, Zenon DEF UploadType
    <3>3. /\ q.id = put[s].id /\ q.len = put[s].len /\ q.off = put[s].off
          /\ q.got = put[s].got + 1 /\ q.pend = put[s].pend + 1
      BY <1>1, Zenon DEF UploadType
    <3> HIDE DEF q
    <3>4. put'[s] = q /\ \A t \in Session \ {s} : put'[t] = put[t]
      BY <3>1 DEF Types, UploadsTyped
    <3>5. Fits(s)'
      <4>1. /\ q.id # 0
            /\ q.got <= q.len
            /\ q.off + q.pend = q.got
        <5>1. put[s].id # 0 /\ put[s].off + put[s].pend = put[s].got
          BY <1>1, <2>3, Zenon DEF Fits
        <5> QED
          BY <1>1, <2>1, <3>3, <5>1, SMTT(60)
      <4> QED
        BY <4>1, <3>4 DEF Fits
    <3>6. \A t \in Session \ {s} : Fits(t)'
      BY <2>1, <3>4 DEF Fits, Types, UploadsTyped
    <3>7. UploadsTyped'
      BY <2>1, <3>1, <3>2, <3>5, <3>6 DEF Types, UploadsTyped, UploadType, LogType
    <3> QED
      BY <2>1, <2>3, <3>7, PartsUnchanged DEF Types, PcTyped, files
  <2> QED
    BY <1>3, <2>2, <2>3 DEF ReceiveBlock
<1> QED
  BY <1>2, <1>3

(* Who is writing to a file that somebody else changes is no longer alone  *)
(* with it; nothing else is recorded.                                      *)
LEMMA DisturbEffect ==
  ASSUME Types, NEW i
  PROVE  /\ Disturb(i) \in [Session -> UploadType(Len(log))]
         /\ \A s \in Session :
              /\ Disturb(i)[s].id = put[s].id
              /\ Disturb(i)[s].len = put[s].len
              /\ Disturb(i)[s].got = put[s].got
              /\ Disturb(i)[s].off = put[s].off
              /\ Disturb(i)[s].pend = put[s].pend
              /\ Disturb(i)[s].bad = put[s].bad
              /\ Writing(s, i) => ~Disturb(i)[s].alone
              /\ ~Writing(s, i) => Disturb(i)[s] = put[s]
<1>1. ASSUME NEW s \in Session
      PROVE  LET q == Disturb(i)[s]
             IN  /\ q \in UploadType(Len(log))
                 /\ q.id = put[s].id /\ q.len = put[s].len /\ q.got = put[s].got
                 /\ q.off = put[s].off /\ q.pend = put[s].pend /\ q.bad = put[s].bad
                 /\ Writing(s, i) => ~q.alone
                 /\ ~Writing(s, i) => q = put[s]
  <2>1. put[s] \in UploadType(Len(log))
    BY DEF Types, UploadsTyped
  <2>2. CASE Writing(s, i)
    <3> DEFINE q == [put[s] EXCEPT !.alone = FALSE]
    <3>1. Disturb(i)[s] = q
      BY <2>2, Zenon DEF Disturb
    <3>2. q \in UploadType(Len(log))
      BY <2>1 DEF UploadType
    <3>3. /\ q.id = put[s].id /\ q.len = put[s].len /\ q.got = put[s].got
          /\ q.off = put[s].off /\ q.pend = put[s].pend /\ q.bad = put[s].bad
          /\ ~q.alone
      BY <2>1, Zenon DEF UploadType
    <3> HIDE DEF q
    <3> QED
      BY <2>2, <3>1, <3>2, <3>3
  <2>3. CASE ~Writing(s, i)
    <3>1. Disturb(i)[s] = put[s]
      BY <2>3, Zenon DEF Disturb
    <3> QED
      BY <2>1, <2>3, <3>1
  <2> QED
    BY <2>2, <2>3
<1>2. Disturb(i) = [s \in Session |-> Disturb(i)[s]]
  BY DEF Disturb
<1> HIDE DEF Disturb
<1>3. Disturb(i) \in [Session -> UploadType(Len(log))]
  BY <1>1, <1>2
<1> QED
  BY <1>1, <1>3

(* Opening a file for writing: the inode it has, or a new one.             *)
LEMMA OpenedIsMade ==
  ASSUME Types, NEW f \in File, OpenedInode(f) \in Inode,
         made' = IF Present(f) THEN made ELSE OpenedInode(f)
  PROVE  /\ made \in Nat /\ made' \in 0 .. MaxInode /\ made <= made'
         /\ OpenedInode(f) \in 1 .. made'
         /\ Present(f) => OpenedInode(f) \in 1 .. made /\ OpenedInode(f) = dir[f] /\ made' = made
         /\ ~Present(f) => OpenedInode(f) = made + 1 /\ made' = made + 1
         /\ \A j \in 1 .. made' : j \in 1 .. made \/ j = OpenedInode(f)
<1>1. made \in 0 .. MaxInode /\ OpenedInode(f) \in 1 .. MaxInode
  BY DEF Types, FilesTyped, Inode
<1>2. CASE Present(f)
  BY <1>1, <1>2, PresentInode, BlockIsNat DEF OpenedInode
<1>3. CASE ~Present(f)
  BY <1>1, <1>3, BlockIsNat DEF OpenedInode
<1> QED
  BY <1>2, <1>3

(* A new file extends the types of what refers to files.                   *)
LEMMA MoreFiles ==
  ASSUME Types, made' \in Nat, made <= made'
  PROVE  /\ \A g \in DownloadType : g \in DownloadType'
         /\ \A u \in LogType : u \in LogType'
         /\ log \in Seq(LogType')
         /\ UNCHANGED get /\ (\A s \in Session : pc'[s] = "send" => pc[s] = "send")
              => DownloadsTyped'
<1>1. made \in Nat
  BY DEF Types, FilesTyped
<1>2. \A g \in DownloadType : g \in DownloadType'
  BY <1>1 DEF DownloadType
<1>3. \A u \in LogType : u \in LogType'
  BY <1>1 DEF LogType
<1>4. log \in Seq(LogType')
  <2>1. LogType \subseteq LogType' /\ log \in Seq(LogType)
    BY <1>3 DEF Types, UploadsTyped
  <2> HIDE DEF LogType
  <2> QED
    BY <2>1, SeqMonotonic
<1>5. ASSUME UNCHANGED get, \A s \in Session : pc'[s] = "send" => pc[s] = "send"
      PROVE  DownloadsTyped'
  <2> HIDE DEF DownloadType
  <2> QED
    BY <1>2, <1>5 DEF Types, DownloadsTyped
<1> QED
  BY <1>2, <1>3, <1>4, <1>5

LEMMA CopyTypes ==
  ASSUME Types, NEW s \in Session, NEW f \in File, NEW g \in File, Copy(s, f, g)
  PROVE  Types'
<1> DEFINE i == OpenedInode(g)
           d == data[dir[f]]
<1>1. /\ Present(f) /\ i \in Inode
      /\ dir' = [dir EXCEPT ![g] = i]
      /\ made' = IF Present(g) THEN made ELSE i
      /\ Modify(i, d)
      /\ put' = Disturb(i)
      /\ UNCHANGED <<pc, get, seen, log>>
  BY DEF Copy
<1>2. /\ made \in Nat /\ made' \in 0 .. MaxInode /\ made <= made'
      /\ i \in 1 .. made'
  BY <1>1, OpenedIsMade
<1>3. d \in Blocks
  BY <1>1, PresentInode DEF Types, FilesTyped
<1> HIDE DEF i, d
<1>4. FilesTyped'
  <2>1. dir' \in [File -> 0 .. made']
    BY <1>1, <1>2, BlockIsNat DEF Types, FilesTyped
  <2> QED
    BY <2>1, <1>1, <1>2, <1>3, ModifyChanges DEF FilesTyped
<1>5. UploadsTyped'
  <2>1. put' \in [Session -> UploadType(Len(log))]
    BY <1>1, DisturbEffect
  <2>2. log' \in Seq(LogType')
    BY <1>1, <1>2, MoreFiles, BlockIsNat
  <2>3. \A t \in Session : Fits(t)'
    BY <1>1, DisturbEffect DEF Types, UploadsTyped, Fits
  <2> QED
    BY <2>1, <2>2, <2>3, <1>1 DEF Types, UploadsTyped, UploadType
<1>6. DownloadsTyped'
  BY <1>1, <1>2, MoreFiles, BlockIsNat
<1> QED
  BY <1>1, <1>4, <1>5, <1>6, PartsUnchanged DEF Types, PcTyped

(* The step that accepts an upload: what it does, and what it records.     *)
LEMMA AcceptEffect ==
  ASSUME Types, NEW s \in Session, NEW f \in File, NEW cond \in Condition,
         NEW len \in Nat, AcceptPut(s, f, cond, len),
         NEW i, i = OpenedInode(f)
  PROVE  /\ i \in Inode
         /\ i \in 1 .. made' /\ made' \in 0 .. MaxInode /\ made <= made'
         /\ dir' = [dir EXCEPT ![f] = i]
         /\ made' = IF Present(f) THEN made ELSE i
         /\ Modify(i, << >>)
         /\ Holds(s, f, cond)
         /\ \A t \in Session \ {s} : put'[t] = Disturb(i)[t]
         /\ DOMAIN put' = Session /\ put' = [t \in Session |-> put'[t]]
         /\ pc[s] = "idle" /\ pc' = [pc EXCEPT ![s] = "recv"]
         /\ UNCHANGED <<get, seen>>
<1>1. /\ pc[s] = "idle" /\ i \in Inode
      /\ dir' = [dir EXCEPT ![f] = i]
      /\ made' = IF Present(f) THEN made ELSE i
      /\ Modify(i, << >>)
      /\ pc' = [pc EXCEPT ![s] = "recv"]
      /\ Holds(s, f, cond)
      /\ UNCHANGED <<get, seen>>
  BY Zenon DEF AcceptPut
<1>2. PICK p : put' = [Disturb(i) EXCEPT ![s] = p]
  BY Zenon DEF AcceptPut
<1>3. /\ i \in 1 .. made' /\ made' \in 0 .. MaxInode /\ made <= made'
  BY <1>1, OpenedIsMade
<1>4. DOMAIN Disturb(i) = Session
  BY DEF Disturb
<1>5. /\ \A t \in Session \ {s} : put'[t] = Disturb(i)[t]
      /\ DOMAIN put' = Session /\ put' = [t \in Session |-> put'[t]]
  <2> HIDE DEF Disturb
  <2> QED
    BY <1>2, <1>4
<1> QED
  BY <1>1, <1>3, <1>5

LEMMA AcceptRecord ==
  ASSUME Types, NEW s \in Session, NEW f \in File, NEW cond \in Condition,
         NEW len \in Nat, AcceptPut(s, f, cond, len),
         NEW i, i = OpenedInode(f)
  PROVE  /\ log' \in Seq(LogType')
         /\ Len(log') = Len(log) + 1 /\ Len(log') <= MaxUploads
         /\ \A u \in 1 .. Len(log) : log'[u] = log[u]
         /\ log'[Len(log) + 1].inode = i /\ log'[Len(log) + 1].cond = cond
         /\ log'[Len(log) + 1].existing <=> Present(f)
         /\ log'[Len(log) + 1].lost <=> cond = "match" /\ data[i] # seen[s].data
<1> DEFINE r == [inode |-> i, cond |-> cond, existing |-> Present(f),
                 lost |-> cond = "match" /\ data[i] # seen[s].data]
<1>1. Len(log) < MaxUploads /\ log' = Append(log, r)
  BY Zenon DEF AcceptPut
<1>2. /\ i \in 1 .. made' /\ made' \in 0 .. MaxInode /\ made <= made'
  BY AcceptEffect
<1>3. log \in Seq(LogType') /\ Len(log) \in Nat
  BY <1>2, MoreFiles, LogIsSeq, BlockIsNat
<1>4. r \in LogType'
  <2>1. r.existing \in BOOLEAN /\ r.lost \in BOOLEAN
    BY Zenon DEF Present
  <2> QED
    BY <1>2, <2>1, Zenon DEF LogType
<1>5. /\ r.inode = i /\ r.cond = cond
      /\ r.existing <=> Present(f)
      /\ r.lost <=> cond = "match" /\ data[i] # seen[s].data
  BY Zenon
<1> HIDE DEF r
<1>6. /\ log' \in Seq(LogType')
      /\ Len(log') = Len(log) + 1
      /\ \A u \in 1 .. Len(log) : log'[u] = log[u]
      /\ log'[Len(log) + 1] = r
  <2> HIDE DEF LogType
  <2> QED
    BY <1>1, <1>3, <1>4, AppendProperties
<1>7. Len(log') <= MaxUploads
  BY <1>1, <1>3, <1>6, BlockIsNat
<1> QED
  BY <1>5, <1>6, <1>7, Zenon

LEMMA AcceptUpload ==
  ASSUME Types, NEW s \in Session, NEW f \in File, NEW cond \in Condition,
         NEW len \in Nat, AcceptPut(s, f, cond, len),
         NEW i, i = OpenedInode(f)
  PROVE  /\ put'[s].id = Len(log) + 1 /\ put'[s].len = len
         /\ put'[s].got = 0 /\ put'[s].off = 0 /\ put'[s].pend = 0
         /\ put'[s].alone <=> \A t \in Session : ~Writing(t, i)
         /\ put'[s] \in UploadType(Len(log) + 1)
<1> DEFINE p == [id |-> Len(log) + 1, len |-> len, got |-> 0, off |-> 0, pend |-> 0,
                 bad |-> FALSE, alone |-> \A t \in Session : ~Writing(t, i)]
<1>1. put' = [Disturb(i) EXCEPT ![s] = p]
  BY Zenon DEF AcceptPut
<1>2. Len(log) \in Nat
  BY LogIsSeq, BlockIsNat
<1>3. p \in UploadType(Len(log) + 1)
  <2>1. p.alone \in BOOLEAN /\ p.bad \in BOOLEAN
    BY Zenon
  <2>2. p.id \in 0 .. Len(log) + 1 /\ p.got \in Nat /\ p.len \in Nat
    BY <1>2
  <2>3. p.off \in Nat /\ p.pend \in Nat
    OBVIOUS
  <2> QED
    BY <2>1, <2>2, <2>3, Zenon DEF UploadType
<1>4. /\ p.id = Len(log) + 1 /\ p.len = len
      /\ p.got = 0 /\ p.off = 0 /\ p.pend = 0
      /\ p.alone <=> \A t \in Session : ~Writing(t, i)
  BY Zenon
<1>5. DOMAIN Disturb(i) = Session
  BY DEF Disturb
<1> HIDE DEF p
<1>6. put'[s] = p
  <2> HIDE DEF Disturb
  <2> QED
    BY <1>1, <1>5
<1> QED
  BY <1>3, <1>4, <1>6, Zenon

LEMMA AcceptTypes ==
  ASSUME Types, NEW s \in Session, NEW f \in File, NEW cond \in Condition,
         NEW len \in Nat, AcceptPut(s, f, cond, len)
  PROVE  Types'
<1> DEFINE i == OpenedInode(f)
<1>1. /\ i \in Inode
      /\ i \in 1 .. made' /\ made' \in 0 .. MaxInode /\ made <= made'
      /\ dir' = [dir EXCEPT ![f] = i]
      /\ Modify(i, << >>)
      /\ log' \in Seq(LogType')
      /\ Len(log') = Len(log) + 1 /\ Len(log') <= MaxUploads
      /\ put'[s].id = Len(log) + 1 /\ put'[s].got = 0 /\ put'[s].off = 0 /\ put'[s].pend = 0
      /\ put'[s].len = len
      /\ put'[s] \in UploadType(Len(log'))
      /\ \A t \in Session \ {s} : put'[t] = Disturb(i)[t]
      /\ DOMAIN put' = Session /\ put' = [t \in Session |-> put'[t]]
      /\ pc' = [pc EXCEPT ![s] = "recv"]
      /\ UNCHANGED <<get, seen>>
  BY AcceptEffect, AcceptRecord, AcceptUpload
<1>2. made \in Nat /\ made' \in Nat /\ Len(log) \in Nat /\ << >> \in Blocks
  BY <1>1, LogIsSeq, BlockIsNat, EmptySeq DEF Types, FilesTyped, Blocks
<1> HIDE DEF i
<1>3. FilesTyped'
  <2>1. dir' \in [File -> 0 .. made']
    BY <1>1, <1>2 DEF Types, FilesTyped
  <2> QED
    BY <2>1, <1>1, <1>2, ModifyChanges DEF FilesTyped
<1>4. PcTyped' /\ \A t \in Session \ {s} : pc'[t] = pc[t]
  BY <1>1 DEF Types, PcTyped
<1>5. UploadsTyped'
  <2>1. \A t \in Session \ {s} : put'[t] \in UploadType(Len(log'))
    <3>1. \A t \in Session : Disturb(i)[t] \in UploadType(Len(log))
      BY DisturbEffect
    <3>2. \A p \in UploadType(Len(log)) : p \in UploadType(Len(log) + 1)
      BY <1>2 DEF UploadType
    <3> QED
      BY <1>1, <3>1, <3>2
  <2>2. put' \in [Session -> UploadType(Len(log'))]
    BY <1>1, <2>1
  <2>3. \A t \in Session \ {s} : Fits(t)'
    BY <1>1, <1>4, DisturbEffect DEF Types, UploadsTyped, Fits
  <2>4. Fits(s)'
    BY <1>1, <1>2 DEF Fits
  <2> QED
    BY <2>2, <2>3, <2>4, <1>1 DEF UploadsTyped
<1>6. DownloadsTyped'
  <2>1. \A t \in Session : pc'[t] = "send" => pc[t] = "send"
    BY <1>1 DEF Types, PcTyped
  <2> QED
    BY <2>1, <1>1, <1>2, MoreFiles
<1> QED
  BY <1>1, <1>3, <1>4, <1>5, <1>6, PartsUnchanged DEF Types

(* A step of Next by its action.                                           *)
LEMMA NextCases ==
  ASSUME Next
  PROVE  \E s \in Session :
           \/ \E f \in File, g \in File, cond \in Condition :
                \/ RefusePut(s, f, cond) \/ Look(s, f) \/ Delete(s, f) \/ Move(s, f, g)
                \/ Copy(s, f, g)
                \/ \E len \in Nat : AcceptPut(s, f, cond, len)
                \/ \E first \in Nat, len \in Nat : OpenForRead(s, f, first, len)
           \/ ReceiveBlock(s) \/ FinishPut(s) \/ AbortPut(s)
           \/ ReplyToPut(s) \/ SendBlock(s) \/ FinishGet(s) \/ Break(s) \/ Close(s)
<1>1. \A n \in 0 .. MaxBlocks : n \in Nat
  BY TransferAssumption
<1>2. "none" \in Condition
  BY DEF Condition
<1> QED
  BY <1>1, <1>2, Zenon DEF Next, Upload, Download

LEMMA InitTypes == Init => Types
<1> SUFFICES ASSUME Init PROVE Types
  OBVIOUS
<1>1. made \in 0 .. MaxInode /\ made \in Nat /\ MaxInode \in Nat
  BY BlockIsNat DEF Init
<1>2. FilesTyped
  <2>1. \A i \in Inode : (IF i <= made THEN <<Older(i)>> ELSE << >>) \in Blocks
    <3>1. \A i \in Inode : Older(i) \in Block
      BY BlockIsNat, TransferAssumption DEF Inode, Older, Block
    <3>2. << >> \in Blocks /\ \A b \in Block : <<b>> \in Blocks
      BY EmptySeq DEF Blocks, Block
    <3> QED
      BY <3>1, <3>2
  <2>2. data \in [Inode -> Blocks]
    BY <2>1, Zenon DEF Init
  <2>3. stamp \in [Inode -> 0 .. now]
    BY <1>1 DEF Init, Inode
  <2> QED
    BY <1>1, <2>2, <2>3 DEF Init, FilesTyped
<1>3. UploadsTyped
  <2>1. Len(log) = 0 /\ log \in Seq(LogType)
    BY EmptySeq DEF Init
  <2>2. NoPut \in UploadType(0)
    BY DEF NoPut, UploadType
  <2> QED
    BY <2>1, <2>2, BlockIsNat DEF Init, UploadsTyped, Fits
<1>4. << >> \in Blocks /\ NoTag \in TagType
  BY EmptySeq DEF Blocks, NoTag, TagType
<1>5. DownloadsTyped
  <2>1. NoGet \in DownloadType
    BY <1>1, <1>4 DEF NoGet, DownloadType, NoInode
  <2> QED
    BY <2>1 DEF Init, DownloadsTyped
<1>6. SeenTyped
  BY <1>4 DEF Init, SeenTyped
<1>7. PcTyped
  BY DEF Init, PcTyped
<1> QED
  BY <1>2, <1>3, <1>5, <1>6, <1>7 DEF Types

LEMMA NextTypes == Types /\ [Next]_vars => Types'
<1>1. ASSUME Types, Next PROVE Types'
  <2>1. PICK s \in Session :
           \/ \E f \in File, g \in File, cond \in Condition :
                \/ RefusePut(s, f, cond) \/ Look(s, f) \/ Delete(s, f) \/ Move(s, f, g)
                \/ Copy(s, f, g)
                \/ \E len \in Nat : AcceptPut(s, f, cond, len)
                \/ \E first \in Nat, len \in Nat : OpenForRead(s, f, first, len)
           \/ ReceiveBlock(s) \/ FinishPut(s) \/ AbortPut(s)
           \/ ReplyToPut(s) \/ SendBlock(s) \/ FinishGet(s) \/ Break(s) \/ Close(s)
    BY <1>1, NextCases
  <2>2. ASSUME NEW f \in File, NEW g \in File, NEW cond \in Condition,
               RefusePut(s, f, cond) \/ Look(s, f) \/ Delete(s, f) \/ Move(s, f, g)
        PROVE  Types'
    BY <1>1, <2>2, QuietTypes, NameTypes
  <2>3. ASSUME NEW f \in File, NEW g \in File, Copy(s, f, g) PROVE Types'
    BY <1>1, <2>3, CopyTypes
  <2>4. ASSUME NEW f \in File, NEW cond \in Condition, NEW len \in Nat,
               AcceptPut(s, f, cond, len)
        PROVE  Types'
    BY <1>1, <2>4, AcceptTypes
  <2>5. ASSUME NEW f \in File, NEW first \in Nat, NEW len \in Nat,
               OpenForRead(s, f, first, len) 
        PROVE  Types'
    BY <1>1, <2>5, OpenTypes
  <2>6. ASSUME ReceiveBlock(s) \/ FinishPut(s) \/ AbortPut(s) PROVE Types'
    BY <1>1, <2>6, UploadTypes
  <2>7. ASSUME SendBlock(s) PROVE Types'
    BY <1>1, <2>7, SendTypes
  <2>8. ASSUME ReplyToPut(s) \/ FinishGet(s) \/ Break(s) \/ Close(s) PROVE Types'
    BY <1>1, <2>8, QuietTypes
  <2> QED
    BY <2>1, <2>2, <2>3, <2>4, <2>5, <2>6, <2>7, <2>8
<1>2. ASSUME Types, UNCHANGED vars PROVE Types'
  BY <1>2, PartsUnchanged DEF vars, files, Types, PcTyped
<1> QED
  BY <1>1, <1>2

(* Whatever the sessions do, every variable keeps its type, and an upload  *)
(* accounts for every block it has received.                               *)
THEOREM TransferTypeCorrect == Spec => []TypeOK
<1> QED
  BY InitTypes, NextTypes, TypesAreTypeOK, PTL DEF Spec

-----------------------------------------------------------------------------
(* What a step may do, seen from the files and from each session.          *)
FileStep ==
  \/ UNCHANGED <<data, stamp, made, now>>
  \/ \E i \in Inode, d \in Blocks :
       /\ Modify(i, d)
       /\ made' \in Nat /\ made <= made' /\ i \in 1 .. made'
       /\ \A j \in 1 .. made' : j \in 1 .. made \/ j = i

LogStep ==
  \/ log' = log
  \/ \E s \in Session, f \in File, cond \in Condition, len \in Nat : AcceptPut(s, f, cond, len)

SeenStep(s) == seen'[s] = seen[s] \/ \E f \in File : Look(s, f)

SendStep(s) ==
  pc'[s] = "send" =>
    \/ pc[s] = "send" /\ get'[s] = get[s]
    \/ \E f \in File, first \in Nat, len \in Nat : OpenForRead(s, f, first, len)
    \/ SendBlock(s)

LEMMA FlushFileStep ==
  ASSUME Types, NEW s \in Session, pc[s] = "recv", NEW k \in Nat, NEW got \in Nat,
         Flush(s, k, got), UNCHANGED made
  PROVE  FileStep
<1>1. /\ log[put[s].id].inode \in Inode
      /\ log[put[s].id].inode \in 1 .. made
      /\ made \in Nat
  BY InodeOfUpload DEF Types, FilesTyped
<1> QED
  BY <1>1, FlushEffect DEF FileStep

LEMMA StepOnFiles == Types /\ [Next]_vars => FileStep
<1>1. ASSUME Types, UNCHANGED <<data, stamp, made, now>> PROVE FileStep
  BY <1>1 DEF FileStep
<1>2. ASSUME Types, Next PROVE FileStep
  <2>1. PICK s \in Session :
           \/ \E f \in File, g \in File, cond \in Condition :
                \/ RefusePut(s, f, cond) \/ Look(s, f) \/ Delete(s, f) \/ Move(s, f, g)
                \/ Copy(s, f, g)
                \/ \E len \in Nat : AcceptPut(s, f, cond, len)
                \/ \E first \in Nat, len \in Nat : OpenForRead(s, f, first, len)
           \/ ReceiveBlock(s) \/ FinishPut(s) \/ AbortPut(s)
           \/ ReplyToPut(s) \/ SendBlock(s) \/ FinishGet(s) \/ Break(s) \/ Close(s)
    BY <1>2, NextCases
  <2>2. ASSUME NEW f \in File, NEW g \in File, NEW cond \in Condition,
               \/ RefusePut(s, f, cond) \/ Look(s, f) \/ Delete(s, f) \/ Move(s, f, g)
               \/ \E first \in Nat, len \in Nat : OpenForRead(s, f, first, len)
        PROVE  FileStep
    BY <1>1, <1>2, <2>2, Zenon DEF RefusePut, Look, Delete, Move, OpenForRead, files
  <2>3. ASSUME NEW f \in File, NEW g \in File, Copy(s, f, g) PROVE FileStep
    <3>1. /\ OpenedInode(g) \in Inode
          /\ made' = IF Present(g) THEN made ELSE OpenedInode(g)
          /\ Modify(OpenedInode(g), data[dir[f]])
          /\ Present(f)
      BY <2>3 DEF Copy
    <3>2. data[dir[f]] \in Blocks
      BY <1>2, <3>1, PresentInode DEF Types, FilesTyped
    <3>3. made' \in Nat
      BY <1>2, <3>1, OpenedIsMade, BlockIsNat
    <3> QED
      BY <1>2, <3>1, <3>2, <3>3, OpenedIsMade DEF FileStep
  <2>4. ASSUME NEW f \in File, NEW cond \in Condition, NEW len \in Nat,
               AcceptPut(s, f, cond, len)
        PROVE  FileStep
    <3>1. /\ OpenedInode(f) \in Inode
          /\ made' = IF Present(f) THEN made ELSE OpenedInode(f)
          /\ Modify(OpenedInode(f), << >>)
      BY <1>2, <2>4, AcceptEffect
    <3>2. << >> \in Blocks
      BY EmptySeq DEF Blocks
    <3>3. made' \in Nat
      BY <1>2, <3>1, OpenedIsMade, BlockIsNat
    <3> QED
      BY <1>2, <3>1, <3>2, <3>3, OpenedIsMade DEF FileStep
  <2>5. ASSUME ReceiveBlock(s) \/ FinishPut(s) \/ AbortPut(s) PROVE FileStep
    <3>1. /\ pc[s] = "recv" /\ UNCHANGED made
          /\ \/ UNCHANGED <<data, stamp, now>>
             \/ Flush(s, put[s].pend + 1, put[s].got + 1)
             \/ Flush(s, put[s].pend, put[s].got)
      BY <2>5 DEF ReceiveBlock, FinishPut, AbortPut
    <3>2. put[s].pend \in Nat /\ put[s].got \in Nat
      BY <1>2, <3>1, InodeOfUpload DEF UploadType
    <3>3. put[s].pend + 1 \in Nat /\ put[s].got + 1 \in Nat
      BY <3>2
    <3> QED
      BY <1>1, <1>2, <3>1, <3>2, <3>3, FlushFileStep
  <2>6. ASSUME ReplyToPut(s) \/ SendBlock(s) \/ FinishGet(s) \/ Break(s) \/ Close(s)
        PROVE  FileStep
    BY <1>1, <1>2, <2>6 DEF ReplyToPut, SendBlock, FinishGet, Break, Close, files
  <2> QED
    BY <2>1, <2>2, <2>3, <2>4, <2>5, <2>6, Zenon
<1> QED
  BY <1>1, <1>2 DEF vars

LEMMA StepOnSessions ==
  Types /\ [Next]_vars => LogStep /\ \A t \in Session : SeenStep(t) /\ SendStep(t)
<1>1. ASSUME Types, Next PROVE LogStep /\ \A t \in Session : SeenStep(t) /\ SendStep(t)
  <2>1. PICK s \in Session :
           \/ \E f \in File, g \in File, cond \in Condition :
                \/ RefusePut(s, f, cond) \/ Look(s, f) \/ Delete(s, f) \/ Move(s, f, g)
                \/ Copy(s, f, g)
                \/ \E len \in Nat : AcceptPut(s, f, cond, len)
                \/ \E first \in Nat, len \in Nat : OpenForRead(s, f, first, len)
           \/ ReceiveBlock(s) \/ FinishPut(s) \/ AbortPut(s)
           \/ ReplyToPut(s) \/ SendBlock(s) \/ FinishGet(s) \/ Break(s) \/ Close(s)
    BY <1>1, NextCases
  <2>2. DOMAIN pc = Session /\ DOMAIN get = Session /\ DOMAIN seen = Session
    BY <1>1 DEF Types, PcTyped, DownloadsTyped, SeenTyped
  <2> USE DEF LogStep, SeenStep, SendStep, files, sessions
  <2>3. ASSUME NEW f \in File, NEW g \in File, NEW cond \in Condition,
               RefusePut(s, f, cond) \/ Look(s, f) \/ Delete(s, f) \/ Move(s, f, g)
                 \/ Copy(s, f, g)
        PROVE  LogStep /\ \A t \in Session : SeenStep(t) /\ SendStep(t)
    <3>1. CASE RefusePut(s, f, cond)
      BY <2>2, <3>1 DEF RefusePut
    <3>2. CASE Look(s, f)
      <4>1. \A t \in Session \ {s} : seen'[t] = seen[t]
        BY <2>2, <3>2 DEF Look
      <4>2. LogStep /\ \A t \in Session : SendStep(t)
        BY <3>2 DEF Look
      <4> QED
        BY <3>2, <4>1, <4>2
    <3>3. CASE Delete(s, f) \/ Move(s, f, g) \/ Copy(s, f, g)
      BY <3>3 DEF Delete, Move, Copy
    <3> QED
      BY <2>3, <3>1, <3>2, <3>3
  <2>4. ASSUME NEW f \in File, NEW cond \in Condition, NEW len \in Nat,
               AcceptPut(s, f, cond, len)
        PROVE  LogStep /\ \A t \in Session : SeenStep(t) /\ SendStep(t)
    <3>1. pc' = [pc EXCEPT ![s] = "recv"] /\ UNCHANGED <<get, seen>>
      BY <2>4 DEF AcceptPut
    <3>2. \A t \in Session : SeenStep(t) /\ SendStep(t)
      BY <2>2, <3>1
    <3> QED
      BY <2>4, <3>2
  <2>5. ASSUME NEW f \in File, NEW first \in Nat, NEW len \in Nat,
               OpenForRead(s, f, first, len)
        PROVE  LogStep /\ \A t \in Session : SeenStep(t) /\ SendStep(t)
    <3>1. \A t \in Session \ {s} : pc'[t] = pc[t] /\ get'[t] = get[t]
      BY <2>2, <2>5 DEF OpenForRead
    <3>2. UNCHANGED <<seen, log>>
      BY <2>5 DEF OpenForRead
    <3> QED
      BY <2>5, <3>1, <3>2
  <2>6. ASSUME ReceiveBlock(s) \/ FinishPut(s) \/ AbortPut(s) \/ ReplyToPut(s)
                 \/ Break(s) \/ Close(s) \/ FinishGet(s)
        PROVE  LogStep /\ \A t \in Session : SeenStep(t) /\ SendStep(t)
    <3>1. UNCHANGED <<seen, log>>
      BY <2>6 DEF ReceiveBlock, FinishPut, AbortPut, ReplyToPut, Break, Close, FinishGet
    <3>2. \A t \in Session : SendStep(t)
      BY <2>2, <2>6 DEF ReceiveBlock, FinishPut, AbortPut, ReplyToPut, Break, Close, FinishGet
    <3> QED
      BY <3>1, <3>2
  <2>7. ASSUME SendBlock(s)
        PROVE  LogStep /\ \A t \in Session : SeenStep(t) /\ SendStep(t)
    <3>1. /\ \A t \in Session \ {s} : get'[t] = get[t]
          /\ UNCHANGED <<pc, seen, log>>
      BY <2>2, <2>7 DEF SendBlock
    <3> QED
      BY <2>7, <3>1
  <2> QED
    BY <2>1, <2>3, <2>4, <2>5, <2>6, <2>7
<1>2. ASSUME UNCHANGED vars PROVE LogStep /\ \A t \in Session : SeenStep(t) /\ SendStep(t)
  BY <1>2 DEF vars, LogStep, SeenStep, SendStep
<1> QED
  BY <1>1, <1>2

-----------------------------------------------------------------------------
(* Exclusive creation.  It is inductive: an upload that found no file gets *)
(* an inode that no earlier upload can have had, because that inode was    *)
(* not made.                                                               *)
LEMMA NextExclusive == Types /\ ExclusiveCreate /\ [Next]_vars => ExclusiveCreate'
<1> SUFFICES ASSUME Types, ExclusiveCreate, [Next]_vars
             PROVE  ExclusiveCreate'
  OBVIOUS
<1>1. CASE log' = log
  BY <1>1 DEF ExclusiveCreate
<1>2. ASSUME NEW s \in Session, NEW f \in File, NEW cond \in Condition, NEW len \in Nat,
             AcceptPut(s, f, cond, len)
      PROVE  ExclusiveCreate'
  <2> DEFINE i == OpenedInode(f)
             w == Len(log) + 1
  <2>1. /\ log' \in Seq(LogType')
        /\ Len(log') = w
        /\ \A u \in 1 .. Len(log) : log'[u] = log[u]
        /\ log'[w].inode = i /\ log'[w].cond = cond
        /\ log'[w].existing <=> Present(f)
    BY <1>2, AcceptRecord
  <2>2. /\ Len(log) \in Nat /\ DOMAIN log = 1 .. Len(log)
        /\ \A u \in 1 .. Len(log) : log[u].inode \in 1 .. made
    BY LogIsSeq, BlockIsNat DEF LogType
  <2>3. DOMAIN log' = 1 .. w
    BY <2>1, LenProperties
  <2>4. /\ ~Present(f) => i = made + 1
        /\ cond = "absent" => ~Present(f)
        /\ made \in Nat
    <3>1. /\ i \in Inode
          /\ made' = IF Present(f) THEN made ELSE i
          /\ Holds(s, f, cond)
      BY <1>2, AcceptEffect
    <3>2. cond = "absent" => ~Present(f)
      BY <3>1 DEF Holds
    <3> QED
      BY <3>1, <3>2, OpenedIsMade
  <2> HIDE DEF i
  <2>5. ASSUME NEW u \in 1 .. Len(log), log'[u].inode = i
        PROVE  Present(f)
    BY <2>1, <2>2, <2>4, <2>5
  <2>6. ASSUME NEW u \in 1 .. w, NEW v \in 1 .. w, u # v, log'[u].inode = log'[v].inode
        PROVE  /\ log'[v].cond = "absent" => v < u
               /\ log'[u].existing \/ log'[v].existing
    <3>1. CASE u = w
      <4>1. v \in 1 .. Len(log) /\ v < u /\ log'[v].inode = i
        BY <2>1, <2>2, <2>6, <3>1
      <4>2. log'[u].existing
        BY <2>1, <2>5, <3>1, <4>1, Zenon
      <4> QED
        BY <4>1, <4>2
    <3>2. CASE v = w
      <4>1. u \in 1 .. Len(log) /\ log'[u].inode = i
        BY <2>1, <2>2, <2>6, <3>2
      <4>2. log'[v].existing /\ log'[v].cond # "absent"
        BY <2>1, <2>4, <2>5, <3>2, <4>1, Zenon
      <4> QED
        BY <4>2
    <3>3. CASE u # w /\ v # w
      <4>1. u \in 1 .. Len(log) /\ v \in 1 .. Len(log)
        BY <2>2, <3>3
      <4>2. log'[u] = log[u] /\ log'[v] = log[v]
        BY <2>1, <4>1
      <4> QED
        BY <2>2, <2>6, <4>1, <4>2, Zenon DEF ExclusiveCreate
    <3> QED
      BY <3>1, <3>2, <3>3
  <2> QED
    BY <2>3, <2>6 DEF ExclusiveCreate
<1> QED
  BY <1>1, <1>2, StepOnSessions DEF LogStep

(* "If-None-Match: *" creates a file at most once, and no two uploads to   *)
(* one file both find it missing, whatever the sessions do in between.     *)
THEOREM CreatedOnce == Spec => []ExclusiveCreate
<1>1. Init => ExclusiveCreate
  BY DEF Init, ExclusiveCreate
<1> QED
  BY <1>1, InitTypes, NextTypes, NextExclusive, PTL DEF Spec

-----------------------------------------------------------------------------
(* Entity tags.  As long as no two changes fall into one tick of the clock *)
(* (FineClock), a modification time names one state of one file: no two    *)
(* files share it, and what was learned with it is what the file with it   *)
(* still holds.                                                            *)
StampsDiffer ==
  /\ \A i \in 1 .. made : stamp[i] # 0
  /\ \A i, j \in 1 .. made : stamp[i] = stamp[j] => i = j

SeenNamesData ==
  \A s \in Session :
    /\ seen[s].tag.stamp <= now
    /\ \A i \in 1 .. made : seen[s].tag.stamp = stamp[i] => seen[s].data = data[i]

PromiseIsPast == \A s \in Session : pc[s] = "send" => get[s].tag.stamp <= now

TagInv == StampsDiffer /\ SeenNamesData /\ NoLostUpdate /\ PromiseIsPast /\ EtagNamesBody

(* What a change of a file does to all files, by the clock.                *)
LEMMA FileStepByClock ==
  ASSUME Types, Types', FineClock, FileStep
  PROVE  /\ now \in Nat /\ now' \in Nat /\ now <= now' /\ made \in Nat
         /\ 1 .. made \subseteq Inode /\ 1 .. made \subseteq 1 .. made'
         /\ \A i \in 1 .. made : stamp[i] \in Nat /\ stamp[i] <= now
         /\ \/ UNCHANGED <<data, stamp, made, now>>
            \/ \E i \in 1 .. made' :
                 /\ stamp'[i] = now + 1
                 /\ \A j \in 1 .. made' : j # i =>
                      j \in 1 .. made /\ stamp'[j] = stamp[j] /\ data'[j] = data[j]
<1>1. /\ now \in Nat /\ now' \in Nat /\ made \in Nat /\ made \in 0 .. MaxInode
      /\ made' \in 0 .. MaxInode
      /\ stamp \in [Inode -> 0 .. now]
  BY BlockIsNat DEF Types, FilesTyped
<1>2. /\ 1 .. made \subseteq Inode
      /\ 1 .. made' \subseteq Inode
      /\ \A i \in 1 .. made : stamp[i] \in Nat /\ stamp[i] <= now
  BY <1>1, BlockIsNat DEF Inode
<1>3. CASE UNCHANGED <<data, stamp, made, now>>
  BY <1>1, <1>2, <1>3
<1>4. ASSUME NEW i \in Inode, NEW d \in Blocks, Modify(i, d),
             made' \in Nat, made <= made', i \in 1 .. made',
             \A j \in 1 .. made' : j \in 1 .. made \/ j = i
      PROVE  /\ now <= now' /\ 1 .. made \subseteq 1 .. made'
             /\ stamp'[i] = now + 1
             /\ \A j \in 1 .. made' : j # i =>
                  j \in 1 .. made /\ stamp'[j] = stamp[j] /\ data'[j] = data[j]
  BY <1>1, <1>2, <1>4, ModifyChanges
<1> QED
  BY <1>1, <1>2, <1>3, <1>4 DEF FileStep

LEMMA NextStamps ==
  ASSUME Types, Types', FineClock, FileStep, StampsDiffer
  PROVE  StampsDiffer'
BY FileStepByClock DEF StampsDiffer

LEMMA NextSeen ==
  ASSUME Types, Types', FineClock, FileStep, StampsDiffer, SeenNamesData,
         \A s \in Session : SeenStep(s)
  PROVE  SeenNamesData'
<1> SUFFICES ASSUME NEW s \in Session
             PROVE  /\ seen'[s].tag.stamp <= now'
                    /\ \A i \in 1 .. made' :
                         seen'[s].tag.stamp = stamp'[i] => seen'[s].data = data'[i]
  BY DEF SeenNamesData
<1>1. CASE seen'[s] = seen[s]
  <2>1. seen[s].tag.stamp \in Nat
    BY DEF Types, SeenTyped, TagType
  <2>2. /\ seen[s].tag.stamp <= now
        /\ \A i \in 1 .. made : seen[s].tag.stamp = stamp[i] => seen[s].data = data[i]
    BY DEF SeenNamesData
  <2> QED
    BY <1>1, <2>1, <2>2, FileStepByClock
<1>2. ASSUME NEW f \in File, Look(s, f)
      PROVE  /\ seen'[s].tag.stamp <= now'
             /\ \A i \in 1 .. made' :
                  seen'[s].tag.stamp = stamp'[i] => seen'[s].data = data'[i]
  <2>1. /\ Present(f)
        /\ UNCHANGED <<data, stamp, made, now>>
        /\ seen' = [seen EXCEPT ![s] = [tag |-> Tag(dir[f]), data |-> data[dir[f]]]]
    BY <1>2 DEF Look, files
  <2>2. dir[f] \in 1 .. made
    BY <2>1, PresentInode
  <2>3. seen'[s].tag.stamp = stamp[dir[f]] /\ seen'[s].data = data[dir[f]]
    BY <2>1 DEF Tag, Types, SeenTyped
  <2> QED
    BY <2>1, <2>2, <2>3, FileStepByClock DEF StampsDiffer
<1> QED
  BY <1>1, <1>2 DEF SeenStep

LEMMA NextNoLostUpdate ==
  ASSUME Types, SeenNamesData, NoLostUpdate, LogStep
  PROVE  NoLostUpdate'
<1>1. CASE log' = log
  BY <1>1 DEF NoLostUpdate
<1>2. ASSUME NEW s \in Session, NEW f \in File, NEW cond \in Condition, NEW len \in Nat,
             AcceptPut(s, f, cond, len)
      PROVE  NoLostUpdate'
  <2> DEFINE i == OpenedInode(f)
             w == Len(log) + 1
  <2>1. /\ log' \in Seq(LogType')
        /\ Len(log') = w
        /\ \A u \in 1 .. Len(log) : log'[u] = log[u]
        /\ log'[w].lost <=> cond = "match" /\ data[i] # seen[s].data
    BY <1>2, AcceptRecord
  <2>2. Len(log) \in Nat /\ DOMAIN log = 1 .. Len(log)
    BY LogIsSeq, BlockIsNat
  <2>3. DOMAIN log' = 1 .. w
    BY <2>1, LenProperties
  <2>4. cond = "match" => data[i] = seen[s].data
    <3> SUFFICES ASSUME cond = "match" PROVE data[i] = seen[s].data
      OBVIOUS
    <3>1. Present(f) /\ Tag(dir[f]) = seen[s].tag /\ i = dir[f]
      BY <1>2, AcceptEffect DEF Holds, OpenedInode
    <3>2. i \in 1 .. made /\ seen[s].tag.stamp = stamp[i]
      BY <3>1, PresentInode DEF Tag
    <3> QED
      BY <3>2 DEF SeenNamesData
  <2>5. ~log'[w].lost
    BY <2>1, <2>4, Zenon
  <2>6. \A u \in 1 .. Len(log) : ~log'[u].lost
    BY <2>1, <2>2, Zenon DEF NoLostUpdate
  <2>7. \A u \in 1 .. w : u = w \/ u \in 1 .. Len(log)
    BY <2>2
  <2> QED
    BY <2>3, <2>5, <2>6, <2>7, Zenon DEF NoLostUpdate
<1> QED
  BY <1>1, <1>2 DEF LogStep

(* What was sent is a piece of the file that begins where the range does.  *)
SentFrom(g, d) ==
  /\ g.first + g.len <= Len(d)
  /\ g.sent = SubSeq(d, g.first + 1, g.first + Len(g.sent))

TagOf(t, d) == [stamp |-> t, size |-> Len(d)]

LEMMA NothingSent ==
  ASSUME NEW d, NEW n \in Nat
  PROVE  << >> = SubSeq(d, n + 1, n + Len(<< >>))
<1>1. Len(<< >>) = 0
  BY EmptySeq
<1> QED
  BY <1>1, SubSeqEmpty

LEMMA OneMoreSent ==
  ASSUME NEW d \in Blocks, NEW n \in Nat, NEW sent \in Blocks,
         sent = SubSeq(d, n + 1, n + Len(sent)),
         n + Len(sent) + 1 <= Len(d)
  PROVE  Append(sent, d[n + Len(sent) + 1])
           = SubSeq(d, n + 1, n + Len(Append(sent, d[n + Len(sent) + 1])))
<1> DEFINE m == n + Len(sent) + 1
           b == d[m]
<1>1. Len(sent) \in Nat /\ Len(d) \in Nat /\ d \in Seq(Block) /\ sent \in Seq(Block)
  BY DataIsSeq DEF Blocks, Block
<1>2. m \in 1 .. Len(d) /\ b \in Block
  BY <1>1, ElementOfSeq
<1> HIDE DEF b
<1>3. /\ Append(sent, b) \in Seq(Block)
      /\ Len(Append(sent, b)) = Len(sent) + 1
      /\ Append(sent, b) = sent \o <<b>>
  BY <1>1, <1>2, AppendProperties, AppendIsConcat
<1>4. n + Len(Append(sent, b)) = m
  BY <1>1, <1>3
<1>5. n + 1 \in 1 .. Len(d) /\ m \in n + 1 .. Len(d)
  BY <1>1, <1>2
<1>6. SubSeq(d, n + 1, m) = SubSeq(d, n + 1, m - 1) \o <<b>>
  BY <1>1, <1>5, SubSeqRecursiveSecond DEF b
<1>7. SubSeq(d, n + 1, m - 1) = sent
  BY <1>1
<1> QED
  BY <1>3, <1>4, <1>6, <1>7 DEF b

LEMMA NextEtag ==
  ASSUME Types, Types', FineClock, FileStep, PromiseIsPast, EtagNamesBody,
         \A s \in Session : SendStep(s)
  PROVE  PromiseIsPast' /\ EtagNamesBody'
<1> SUFFICES ASSUME NEW s \in Session, pc'[s] = "send"
             PROVE  /\ get'[s].tag.stamp <= now'
                    /\ get'[s].tag = TagOf(stamp'[get'[s].inode], data'[get'[s].inode])
                         => SentFrom(get'[s], data'[get'[s].inode])
  BY DEF PromiseIsPast, EtagNamesBody, SentFrom, Tag, TagOf
<1>1. CASE pc[s] = "send" /\ get'[s] = get[s]
  <2> DEFINE g == get[s]
  <2>1. /\ g.inode \in 1 .. made
        /\ g.tag.stamp \in Nat /\ g.tag.stamp <= now
        /\ g.tag = Tag(g.inode) => SentFrom(g, data[g.inode])
    <3>1. g \in DownloadType /\ g.inode # NoInode /\ made \in Nat
      BY <1>1, BlockIsNat DEF Types, DownloadsTyped, FilesTyped
    <3>2. g.inode \in 1 .. made /\ g.tag.stamp \in Nat
      BY <3>1 DEF DownloadType, TagType, NoInode
    <3> QED
      BY <3>2, <1>1 DEF PromiseIsPast, EtagNamesBody, SentFrom
  <2> HIDE DEF g
  <2>2. g.tag.stamp <= now'
    BY <2>1, FileStepByClock
  <2>3. ASSUME g.tag = TagOf(stamp'[g.inode], data'[g.inode])
        PROVE  SentFrom(g, data'[g.inode])
    <3>1. g.tag.stamp = stamp'[g.inode]
      <4>1. TagOf(stamp'[g.inode], data'[g.inode]).stamp = stamp'[g.inode]
        BY DEF TagOf
      <4> QED
        BY <2>3, <4>1, Zenon
    <3>2. stamp'[g.inode] = stamp[g.inode] /\ data'[g.inode] = data[g.inode]
      BY <2>1, <3>1, FileStepByClock
    <3>3. g.tag = Tag(g.inode)
      BY <2>3, <3>2, Zenon DEF Tag, TagOf
    <3> QED
      BY <2>1, <3>2, <3>3
  <2> QED
    BY <1>1, <2>2, <2>3 DEF g
<1>2. ASSUME NEW f \in File, NEW first \in Nat, NEW len \in Nat, OpenForRead(s, f, first, len)
      PROVE  /\ get'[s].tag.stamp <= now'
             /\ SentFrom(get'[s], data'[get'[s].inode])
  <2> DEFINE g == [inode |-> dir[f], first |-> first, len |-> len, tag |-> Tag(dir[f]),
                   sent |-> << >>]
  <2>1. /\ Present(f)
        /\ get' = [get EXCEPT ![s] = g]
        /\ UNCHANGED <<data, stamp, now>>
        /\ \/ first = 0 /\ len = Len(data[dir[f]])
           \/ first + len <= Len(data[dir[f]])
    BY <1>2, Zenon DEF OpenForRead, files
  <2>2. dir[f] \in 1 .. made /\ dir[f] \in Inode /\ data[dir[f]] \in Blocks
    BY <2>1, PresentInode DEF Types, FilesTyped
  <2>3. first + len <= Len(data[dir[f]])
    BY <2>1, <2>2, DataIsSeq
  <2>4. get'[s] = g
    BY <2>1 DEF Types, DownloadsTyped
  <2>5. g.inode = dir[f] /\ g.first = first /\ g.len = len /\ g.sent = << >>
        /\ g.tag.stamp = stamp[dir[f]]
    BY DEF Tag
  <2> HIDE DEF g
  <2>6. SentFrom(g, data[dir[f]])
    BY <2>3, <2>5, NothingSent DEF SentFrom
  <2> QED
    BY <2>1, <2>2, <2>4, <2>5, <2>6, FileStepByClock
<1>3. CASE SendBlock(s)
  <2> DEFINE g == get[s]
             d == data[g.inode]
             h == [g EXCEPT !.sent = Append(@, d[NextBlock(s)])]
  <2>1. /\ pc[s] = "send" /\ ~AtEnd(s)
        /\ get' = [get EXCEPT ![s] = h]
        /\ UNCHANGED <<data, stamp, now>>
    BY <1>3 DEF SendBlock, files
  <2>2. /\ g \in DownloadType /\ g.inode \in Inode
        /\ NextBlock(s) = g.first + Len(g.sent) + 1
        /\ NextBlock(s) \in 1 .. Len(d)
        /\ g.first \in Nat /\ g.sent \in Blocks /\ d \in Blocks
    BY <2>1, NextBlockOfFile DEF DownloadType, Types, FilesTyped
  <2>3. get'[s] = h
    BY <2>1 DEF Types, DownloadsTyped
  <2>4. h.inode = g.inode /\ h.first = g.first /\ h.len = g.len /\ h.tag = g.tag
        /\ h.sent = Append(g.sent, d[g.first + Len(g.sent) + 1])
    BY <2>2 DEF DownloadType
  <2>5. /\ g.tag.stamp <= now
        /\ g.tag = Tag(g.inode) => SentFrom(g, d)
    BY <2>1 DEF PromiseIsPast, EtagNamesBody, SentFrom
  <2> HIDE DEF g, h, d
  <2>6. ASSUME SentFrom(g, d) PROVE SentFrom(h, d)
    <3>1. g.first + Len(g.sent) + 1 <= Len(d)
      BY <2>2, DataIsSeq
    <3>2. g.sent = SubSeq(d, g.first + 1, g.first + Len(g.sent)) /\ g.first + g.len <= Len(d)
      BY <2>6 DEF SentFrom
    <3>3. Append(g.sent, d[g.first + Len(g.sent) + 1])
            = SubSeq(d, g.first + 1, g.first + Len(Append(g.sent, d[g.first + Len(g.sent) + 1])))
      BY <2>2, <3>1, <3>2, OneMoreSent
    <3> QED
      BY <2>4, <3>2, <3>3 DEF SentFrom
  <2>7. TagOf(stamp'[g.inode], data'[g.inode]) = Tag(g.inode) /\ data'[g.inode] = d
    BY <2>1, Zenon DEF Tag, TagOf, d
  <2> QED
    BY <2>1, <2>3, <2>4, <2>5, <2>6, <2>7
<1> QED
  BY <1>1, <1>2, <1>3 DEF SendStep

LEMMA InitTags == Init /\ FineClock => TagInv
<1> SUFFICES ASSUME Init, FineClock PROVE TagInv
  OBVIOUS
<1>1. made \in 0 .. MaxInode /\ made \in Nat
  BY BlockIsNat DEF Init
<1>2. \A i \in 1 .. made : stamp[i] = i
  BY <1>1, BlockIsNat DEF Init, Inode
<1>3. StampsDiffer
  BY <1>1, <1>2 DEF StampsDiffer
<1>4. SeenNamesData
  <2>1. \A s \in Session : seen[s].tag.stamp = 0
    BY DEF Init, NoTag
  <2>2. now \in Nat
    BY <1>1 DEF Init
  <2> QED
    <3>1. 0 <= now /\ \A i \in 1 .. made : stamp[i] # 0
      BY <1>1, <1>2, <2>2
    <3> QED
      BY <2>1, <3>1, Zenon DEF SeenNamesData
<1>5. NoLostUpdate
  BY DEF Init, NoLostUpdate
<1>6. PromiseIsPast /\ EtagNamesBody
  BY DEF Init, PromiseIsPast, EtagNamesBody
<1> QED
  BY <1>3, <1>4, <1>5, <1>6 DEF TagInv

LEMMA NextTags == FineClock /\ Types /\ TagInv /\ [Next]_vars => TagInv'
<1> SUFFICES ASSUME FineClock, Types, TagInv, [Next]_vars PROVE TagInv'
  OBVIOUS
<1>1. Types' /\ FileStep /\ LogStep /\ \A t \in Session : SeenStep(t) /\ SendStep(t)
  BY NextTypes, StepOnFiles, StepOnSessions
<1>2. StampsDiffer' /\ SeenNamesData' /\ NoLostUpdate'
  BY <1>1, NextStamps, NextSeen, NextNoLostUpdate DEF TagInv
<1>3. PromiseIsPast' /\ EtagNamesBody'
  BY <1>1, NextEtag DEF TagInv
<1> QED
  BY <1>2, <1>3 DEF TagInv

(* "If-Match" prevents the lost update, for any number of sessions and     *)
(* files, if the clock tells every two changes apart.                      *)
THEOREM IfMatchLosesNothing ==
  ASSUME FineClock PROVE Spec => []NoLostUpdate
<1>1. Init => TagInv
  BY InitTags
<1>2. Types /\ TagInv /\ [Next]_vars => TagInv'
  BY NextTags
<1>3. TagInv => NoLostUpdate
  BY DEF TagInv
<1> QED
  BY <1>1, <1>2, <1>3, InitTypes, NextTypes, PTL DEF Spec

(* A change of a file has a later time than any tag that was promised.     *)
LEMMA ChangeOutdates ==
  ASSUME Types, Types', FineClock, FileStep, PromiseIsPast, NEW s \in Session, SendStep(s),
         pc[s] = "send", pc'[s] = "send",
         Outdated(s) \/ data'[get[s].inode] # data[get[s].inode]
  PROVE  Outdated(s)'
<1> DEFINE g == get[s]
<1>1. g.inode \in 1 .. made /\ g.tag.stamp \in Nat /\ g.tag.stamp <= now
  <2>1. g \in DownloadType /\ g.inode # NoInode /\ made \in Nat
    BY BlockIsNat DEF Types, DownloadsTyped, FilesTyped
  <2>2. g.inode \in 1 .. made /\ g.tag.stamp \in Nat
    BY <2>1 DEF DownloadType, TagType, NoInode
  <2> QED
    BY <2>2 DEF PromiseIsPast
<1>2. get'[s].inode = g.inode /\ get'[s].tag = g.tag
  <2>1. get'[s] = g \/ SendBlock(s)
    BY DEF SendStep, OpenForRead
  <2>2. CASE SendBlock(s)
    <3>1. get' = [get EXCEPT ![s] = [g EXCEPT !.sent =
                    Append(@, data[g.inode][NextBlock(s)])]]
      BY <2>2 DEF SendBlock
    <3>2. DOMAIN get = Session /\ g \in DownloadType
      BY DEF Types, DownloadsTyped
    <3> QED
      BY <3>1, <3>2 DEF DownloadType
  <2> QED
    BY <2>1, <2>2
<1> HIDE DEF g
<1>3. Outdated(s)' <=> g.tag # TagOf(stamp'[g.inode], data'[g.inode])
  BY <1>2 DEF Outdated, Tag, TagOf
<1>4. CASE stamp'[g.inode] = stamp[g.inode] /\ data'[g.inode] = data[g.inode]
  <2>1. Outdated(s)
    BY <1>4 DEF g
  <2> QED
    BY <1>3, <1>4, <2>1 DEF Outdated, Tag, TagOf, g
<1>5. CASE stamp'[g.inode] = now + 1
  <2>1. g.tag.stamp # stamp'[g.inode]
    BY <1>1, <1>5, FileStepByClock
  <2>2. TagOf(stamp'[g.inode], data'[g.inode]).stamp = stamp'[g.inode]
    BY DEF TagOf
  <2> QED
    BY <1>3, <2>1, <2>2, Zenon
<1> QED
  BY <1>1, <1>4, <1>5, FileStepByClock

(* Under the same clock, what a client knows by the entity tag of an       *)
(* answer: while the file has it, all that was sent is the content it      *)
(* stands for; and once the file has changed under the download, so that   *)
(* old and new content may be mixed, the file never has it again.          *)
THEOREM EtagIsOfBody ==
  ASSUME FineClock PROVE Spec => []EtagNamesBody /\ EtagTellsChange
<1>1. Init => TagInv
  BY InitTags
<1>2. Types /\ TagInv /\ [Next]_vars => TagInv'
  BY NextTags
<1>3. TagInv => EtagNamesBody
  BY DEF TagInv
<1>4. ASSUME Types, TagInv, [Next]_vars, NEW s \in Session,
             pc[s] = "send", pc'[s] = "send",
             Outdated(s) \/ data'[get[s].inode] # data[get[s].inode]
      PROVE  Outdated(s)'
  <2>1. Types' /\ FileStep /\ SendStep(s)
    BY <1>4, NextTypes, StepOnFiles, StepOnSessions
  <2> QED
    BY <1>4, <2>1, ChangeOutdates DEF TagInv
<1>5. Types /\ TagInv /\ [Next]_vars =>
        [\A s \in Session :
           LET i == get[s].inode
           IN  /\ pc[s] = "send" /\ pc'[s] = "send"
               /\ Outdated(s) \/ data'[i] # data[i]
               => Outdated(s)']_vars
  BY <1>4
<1> QED
  BY <1>1, <1>2, <1>3, <1>5, InitTypes, NextTypes, PTL DEF Spec, EtagTellsChange

-----------------------------------------------------------------------------
(* Uploads that nobody disturbs.  Two uploads going on in one file know of *)
(* each other, so that the file of an upload that is alone changes by its  *)
(* own writes only; and what it has written so far is a prefix of its body.*)
InodeOf(s) == log[put[s].id].inode

OnlyWriter ==
  \A s, t \in Session :
    s # t /\ pc[s] = "recv" /\ pc[t] = "recv" /\ InodeOf(s) = InodeOf(t) => ~put[s].alone

AloneHasPrefix ==
  \A s \in Session :
    pc[s] = "recv" /\ put[s].alone =>
      /\ data[InodeOf(s)] = Body(put[s].id, put[s].off)
      /\ put[s].off <= put[s].got

AloneInv == OnlyWriter /\ AloneHasPrefix

(* An upload that goes on through a step.                                  *)
GoesOn(s) ==
  /\ pc[s] = "recv"
  /\ put'[s].id = put[s].id
  /\ put'[s].alone => put[s].alone
  /\ log'[put[s].id] = log[put[s].id]

RecvStep(s) ==
  pc'[s] = "recv" =>
    \/ GoesOn(s)
    \/ \E f \in File, cond \in Condition, len \in Nat : AcceptPut(s, f, cond, len)

(* What is disturbed was not alone, or is not any more.                    *)
LEMMA DisturbGoesOn ==
  ASSUME Types, NEW i, NEW t \in Session, pc[t] = "recv", put'[t] = Disturb(i)[t],
         log'[put[t].id] = log[put[t].id]
  PROVE  /\ GoesOn(t)
         /\ put'[t].alone => put'[t] = put[t] /\ InodeOf(t) # i
<1>1. /\ put'[t].id = put[t].id
      /\ Writing(t, i) => ~put'[t].alone
      /\ ~Writing(t, i) => put'[t] = put[t]
  BY DisturbEffect
<1>2. Writing(t, i) <=> InodeOf(t) = i
  BY DEF Writing, InodeOf
<1> QED
  BY <1>1, <1>2, Zenon DEF GoesOn

LEMMA OwnGoesOn ==
  ASSUME Types, NEW s \in Session, ReceiveBlock(s) \/ FinishPut(s) \/ AbortPut(s)
  PROVE  /\ GoesOn(s)
         /\ \A t \in Session \ {s} : put'[t] = put[t]
<1>1. /\ pc[s] = "recv" /\ log' = log
      /\ put[s] \in UploadType(Len(log))
      /\ DOMAIN put = Session
  BY InodeOfUpload DEF ReceiveBlock, FinishPut, AbortPut, Types, UploadsTyped
<1>2. ASSUME NEW k \in Nat, NEW got \in Nat, Flush(s, k, got)
      PROVE  /\ GoesOn(s)
             /\ \A t \in Session \ {s} : put'[t] = put[t]
  <2>1. /\ put' = [put EXCEPT ![s] = put'[s]]
        /\ put'[s].id = put[s].id /\ put'[s].alone = put[s].alone
    BY <1>1, <1>2, FlushEffect
  <2>2. \A t \in Session \ {s} : put'[t] = put[t]
    BY <1>1, <2>1
  <2> QED
    BY <1>1, <2>1, <2>2, Zenon DEF GoesOn
<1>3. ASSUME put' = [put EXCEPT ![s].got = @ + 1, ![s].pend = @ + 1]
      PROVE  /\ GoesOn(s)
             /\ \A t \in Session \ {s} : put'[t] = put[t]
  <2>1. put'[s] = [put[s] EXCEPT !.got = @ + 1, !.pend = @ + 1]
    BY <1>1, <1>3
  <2>2. put'[s].id = put[s].id /\ put'[s].alone = put[s].alone
    BY <1>1, <2>1, Zenon DEF UploadType
  <2>3. \A t \in Session \ {s} : put'[t] = put[t]
    BY <1>1, <1>3
  <2> QED
    BY <1>1, <2>2, <2>3, Zenon DEF GoesOn
<1>4. /\ put[s].pend \in Nat /\ put[s].got \in Nat
      /\ put[s].pend + 1 \in Nat /\ put[s].got + 1 \in Nat
  BY <1>1 DEF UploadType
<1>5. \/ Flush(s, put[s].pend + 1, put[s].got + 1)
      \/ Flush(s, put[s].pend, put[s].got)
      \/ put' = [put EXCEPT ![s].got = @ + 1, ![s].pend = @ + 1]
  BY DEF ReceiveBlock, FinishPut, AbortPut
<1> QED
  BY <1>2, <1>3, <1>4, <1>5

LEMMA StepOnUploads == Types /\ [Next]_vars => \A t \in Session : RecvStep(t)
<1>1. ASSUME Types, NEW t \in Session, pc'[t] = "recv", pc[t] = "recv",
             put'[t] = put[t], log' = log
      PROVE  RecvStep(t)
  BY <1>1, Zenon DEF RecvStep, GoesOn
<1>2. ASSUME Types, Next, NEW t \in Session, pc'[t] = "recv" PROVE RecvStep(t)
  <2>1. PICK s \in Session :
           \/ \E f \in File, g \in File, cond \in Condition :
                \/ RefusePut(s, f, cond) \/ Look(s, f) \/ Delete(s, f) \/ Move(s, f, g)
                \/ Copy(s, f, g)
                \/ \E len \in Nat : AcceptPut(s, f, cond, len)
                \/ \E first \in Nat, len \in Nat : OpenForRead(s, f, first, len)
           \/ ReceiveBlock(s) \/ FinishPut(s) \/ AbortPut(s)
           \/ ReplyToPut(s) \/ SendBlock(s) \/ FinishGet(s) \/ Break(s) \/ Close(s)
    BY <1>2, NextCases
  <2>2. DOMAIN pc = Session /\ DOMAIN put = Session
    BY <1>2 DEF Types, PcTyped, UploadsTyped
  <2> USE DEF files, sessions
  <2>3. ASSUME NEW f \in File, NEW g \in File, NEW cond \in Condition,
               \/ RefusePut(s, f, cond) \/ Look(s, f) \/ Delete(s, f) \/ Move(s, f, g)
               \/ \E first \in Nat, len \in Nat : OpenForRead(s, f, first, len)
        PROVE  RecvStep(t)
    <3>1. pc[t] = "recv" /\ put' = put /\ log' = log
      BY <1>2, <2>2, <2>3 DEF RefusePut, Look, Delete, Move, OpenForRead
    <3> QED
      BY <1>1, <1>2, <3>1
  <2>4. ASSUME NEW f \in File, NEW g \in File, Copy(s, f, g) PROVE RecvStep(t)
    <3>1. pc[t] = "recv" /\ put' = Disturb(OpenedInode(g)) /\ log' = log
      BY <1>2, <2>4 DEF Copy
    <3> QED
      BY <1>2, <3>1, DisturbGoesOn DEF RecvStep
  <2>5. ASSUME NEW f \in File, NEW cond \in Condition, NEW len \in Nat,
               AcceptPut(s, f, cond, len)
        PROVE  RecvStep(t)
    <3>1. CASE t = s
      BY <2>5, <3>1 DEF RecvStep
    <3>2. CASE t # s
      <4>1. /\ pc[t] = "recv" /\ put'[t] = Disturb(OpenedInode(f))[t]
            /\ \A u \in 1 .. Len(log) : log'[u] = log[u]
        BY <1>2, <2>2, <2>5, <3>2, AcceptEffect, AcceptRecord
      <4>2. log'[put[t].id] = log[put[t].id]
        BY <1>2, <4>1, InodeOfUpload
      <4> QED
        BY <1>2, <4>1, <4>2, DisturbGoesOn DEF RecvStep
    <3> QED
      BY <3>1, <3>2
  <2>6. ASSUME ReceiveBlock(s) \/ FinishPut(s) \/ AbortPut(s) PROVE RecvStep(t)
    <3>1. CASE t = s
      BY <1>2, <2>6, <3>1, OwnGoesOn DEF RecvStep
    <3>2. CASE t # s
      <4>1. pc[t] = "recv" /\ log' = log
        BY <1>2, <2>2, <2>6, <3>2 DEF ReceiveBlock, FinishPut, AbortPut
      <4>2. put'[t] = put[t]
        BY <1>2, <2>6, <3>2, OwnGoesOn
      <4> QED
        BY <1>1, <1>2, <4>1, <4>2
    <3> QED
      BY <3>1, <3>2
  <2>7. ASSUME ReplyToPut(s) \/ SendBlock(s) \/ FinishGet(s) \/ Break(s) \/ Close(s)
        PROVE  RecvStep(t)
    <3>1. pc[t] = "recv" /\ put'[t] = put[t] /\ log' = log
      BY <1>2, <2>2, <2>7 DEF ReplyToPut, SendBlock, FinishGet, Break, Close
    <3> QED
      BY <1>1, <1>2, <3>1
  <2> QED
    BY <2>1, <2>3, <2>4, <2>5, <2>6, <2>7
<1>3. ASSUME Types, UNCHANGED vars, NEW t \in Session, pc'[t] = "recv" PROVE RecvStep(t)
  BY <1>1, <1>3 DEF vars
<1> QED
  BY <1>2, <1>3 DEF RecvStep

LEMMA NextOnlyWriter ==
  ASSUME Types, OnlyWriter, LogStep, \A t \in Session : RecvStep(t)
  PROVE  OnlyWriter'
<1> SUFFICES ASSUME NEW s \in Session, NEW t \in Session, s # t,
                    pc'[s] = "recv", pc'[t] = "recv",
                    log'[put'[s].id].inode = log'[put'[t].id].inode
             PROVE  ~put'[s].alone
  BY Zenon DEF OnlyWriter, InodeOf
<1>1. Len(log) \in Nat
  BY LogIsSeq, BlockIsNat
<1>2. CASE GoesOn(s) /\ GoesOn(t)
  BY <1>2, Zenon DEF GoesOn, OnlyWriter, InodeOf
<1>3. ASSUME NEW a \in Session, NEW f \in File, NEW cond \in Condition, NEW len \in Nat,
             AcceptPut(a, f, cond, len)
      PROVE  ~put'[s].alone
  <2> DEFINE i == OpenedInode(f)
  <2>1. /\ pc[a] = "idle" /\ put'[a].id = Len(log) + 1
        /\ log'[Len(log) + 1].inode = i
        /\ put'[a].alone <=> \A u \in Session : ~Writing(u, i)
        /\ \A u \in 1 .. Len(log) : log'[u] = log[u]
        /\ \A u \in Session \ {a} : put'[u] = Disturb(i)[u]
    BY <1>3, AcceptEffect, AcceptRecord, AcceptUpload
  <2>2. ASSUME NEW u \in Session \ {a}, pc'[u] = "recv" PROVE GoesOn(u)
    <3>1. pc' = [pc EXCEPT ![a] = "recv"] /\ DOMAIN pc = Session
      BY <1>3, AcceptEffect DEF Types, PcTyped
    <3>2. pc[u] = "recv" /\ u \in Session
      BY <2>2, <3>1
    <3>3. log'[put[u].id] = log[put[u].id]
      BY <2>1, <3>2, InodeOfUpload
    <3> QED
      BY <2>1, <3>2, <3>3, DisturbGoesOn
  <2>3. CASE s = a
    <3>1. GoesOn(t) /\ t \in Session \ {a}
      BY <2>2, <2>3
    <3>2. pc[t] = "recv" /\ log[put[t].id].inode = i
      BY <2>1, <2>3, <3>1, Zenon DEF GoesOn
    <3>3. Writing(t, i)
      BY <3>2, Zenon DEF Writing
    <3> QED
      BY <2>1, <2>3, <3>3, Zenon
  <2>4. CASE t = a
    <3>1. GoesOn(s) /\ s \in Session \ {a}
      BY <2>2, <2>4
    <3>2. pc[s] = "recv" /\ log[put[s].id].inode = i
      BY <2>1, <2>4, <3>1, Zenon DEF GoesOn
    <3>3. Writing(s, i) /\ put'[s] = Disturb(i)[s]
      BY <2>1, <3>1, <3>2, Zenon DEF Writing
    <3> QED
      BY <3>3, DisturbEffect, Zenon
  <2>5. CASE s # a /\ t # a
    BY <1>2, <2>2, <2>5
  <2> QED
    BY <2>3, <2>4, <2>5
<1> QED
  BY <1>2, <1>3 DEF RecvStep

(* An undisturbed upload's own writes keep its file a prefix of its body,  *)
(* and unless the disk fills all that was buffered is in it.               *)
LEMMA OwnFlush ==
  ASSUME Types, AloneHasPrefix, NEW s \in Session, pc[s] = "recv", put[s].alone,
         NEW k \in Nat, NEW got \in Nat, Flush(s, k, got),
         put[s].off <= got, ~put[s].bad => put[s].off + k <= got
  PROVE  /\ data'[InodeOf(s)] = Body(put[s].id, put'[s].off)
         /\ put'[s].off <= put'[s].got
         /\ ~put'[s].bad => put'[s].off = put[s].off + k
<1> DEFINE p == put[s]
           q == put'[s]
           i == InodeOf(s)
<1>1. /\ q.got = got
      /\ \/ /\ Modify(i, Written(data[i], p.off, k, p.id))
            /\ Written(data[i], p.off, k, p.id) \in Blocks
            /\ ~p.bad /\ q.off = p.off + k /\ q.pend = 0
         \/ /\ UNCHANGED data
            /\ q.off = p.off
            /\ q.bad \/ (k = 0 /\ q.pend = p.pend /\ ~p.bad)
  BY FlushEffect DEF InodeOf
<1>2. /\ i \in Inode /\ p.off \in Nat
      /\ data[i] = Body(p.id, p.off)
  BY InodeOfUpload DEF UploadType, AloneHasPrefix, InodeOf
<1>3. p.off <= got /\ (~p.bad => p.off + k <= got)
  OBVIOUS
<1> HIDE DEF p, q, i
<1>4. CASE /\ Modify(i, Written(data[i], p.off, k, p.id))
           /\ Written(data[i], p.off, k, p.id) \in Blocks
           /\ ~p.bad /\ q.off = p.off + k
  <2>1. data'[i] = Written(data[i], p.off, k, p.id)
    BY <1>2, <1>4, ModifyChanges
  <2>2. data'[i] = Body(p.id, q.off)
    BY <1>2, <1>4, <2>1, BodyGrows
  <2>3. q.off <= q.got /\ q.off = p.off + k
    BY <1>1, <1>3, <1>4
  <2> QED
    BY <2>2, <2>3 DEF p, q, i
<1>5. CASE UNCHANGED data /\ q.off = p.off /\ (q.bad \/ k = 0)
  <2>1. data'[i] = Body(p.id, q.off) /\ q.off <= q.got
    BY <1>1, <1>2, <1>3, <1>5
  <2>2. ~q.bad => q.off = p.off + k
    BY <1>2, <1>5
  <2> QED
    BY <2>1, <2>2 DEF p, q, i
<1> QED
  BY <1>1, <1>4, <1>5

(* Any step leaves an upload that is still alone after it with a prefix of *)
(* its body.                                                               *)
LEMMA UploadStep ==
  ASSUME Types, AloneInv, [Next]_vars,
         NEW s \in Session, pc[s] = "recv", put'[s].id = put[s].id, put'[s].alone
  PROVE  /\ data'[InodeOf(s)] = Body(put[s].id, put'[s].off)
         /\ put'[s].off <= put'[s].got
<1> DEFINE Goal == /\ data'[InodeOf(s)] = Body(put[s].id, put'[s].off)
                   /\ put'[s].off <= put'[s].got
<1>1. /\ InodeOf(s) \in Inode
      /\ DOMAIN put = Session /\ DOMAIN pc = Session
  BY InodeOfUpload DEF InodeOf, Types, UploadsTyped, PcTyped
<1>2. ASSUME put'[s] = put[s], data'[InodeOf(s)] = data[InodeOf(s)] PROVE Goal
  BY <1>2, Zenon DEF AloneInv, AloneHasPrefix
<1>3. ASSUME NEW i \in Inode, NEW d \in Blocks, Modify(i, d), i # InodeOf(s), put'[s] = put[s]
      PROVE  Goal
  BY <1>1, <1>2, <1>3, ModifyChanges
<1> HIDE DEF Goal
<1>4. ASSUME UNCHANGED vars PROVE Goal
  <2>1. put' = put /\ data' = data
    BY <1>4 DEF vars
  <2> QED
    BY <1>2, <2>1
<1>5. ASSUME Next PROVE Goal
  <2>1. PICK a \in Session :
           \/ \E f \in File, g \in File, cond \in Condition :
                \/ RefusePut(a, f, cond) \/ Look(a, f) \/ Delete(a, f) \/ Move(a, f, g)
                \/ Copy(a, f, g)
                \/ \E len \in Nat : AcceptPut(a, f, cond, len)
                \/ \E first \in Nat, len \in Nat : OpenForRead(a, f, first, len)
           \/ ReceiveBlock(a) \/ FinishPut(a) \/ AbortPut(a)
           \/ ReplyToPut(a) \/ SendBlock(a) \/ FinishGet(a) \/ Break(a) \/ Close(a)
    BY <1>5, NextCases
  <2>2. ASSUME NEW f \in File, NEW g \in File, NEW cond \in Condition,
               \/ RefusePut(a, f, cond) \/ Look(a, f) \/ Delete(a, f) \/ Move(a, f, g)
               \/ \E first \in Nat, len \in Nat : OpenForRead(a, f, first, len)
        PROVE  Goal
    <3>1. put' = put /\ data' = data
      BY <2>2 DEF RefusePut, Look, Delete, Move, OpenForRead, files, sessions
    <3> QED
      BY <1>2, <3>1
  <2>3. ASSUME ReplyToPut(a) \/ SendBlock(a) \/ FinishGet(a) \/ Break(a) \/ Close(a)
        PROVE  Goal
    <3>1. put'[s] = put[s] /\ data' = data
      BY <1>1, <2>3 DEF ReplyToPut, SendBlock, FinishGet, Break, Close, files
    <3> QED
      BY <1>2, <3>1
  <2>4. ASSUME NEW f \in File, NEW g \in File, Copy(a, f, g) PROVE Goal
    <3>1. /\ put' = Disturb(OpenedInode(g)) /\ log' = log
          /\ Modify(OpenedInode(g), data[dir[f]])
          /\ OpenedInode(g) \in Inode /\ Present(f)
      BY <2>4 DEF Copy
    <3>2. data[dir[f]] \in Blocks
      BY <3>1, PresentInode DEF Types, FilesTyped
    <3>3. put'[s] = put[s] /\ InodeOf(s) # OpenedInode(g)
      BY <3>1, DisturbGoesOn
    <3> QED
      BY <1>3, <3>1, <3>2, <3>3
  <2>5. ASSUME NEW f \in File, NEW cond \in Condition, NEW len \in Nat, AcceptPut(a, f, cond, len)
        PROVE  Goal
    <3>1. /\ OpenedInode(f) \in Inode /\ pc[a] = "idle"
          /\ Modify(OpenedInode(f), << >>)
          /\ \A t \in Session \ {a} : put'[t] = Disturb(OpenedInode(f))[t]
          /\ \A u \in 1 .. Len(log) : log'[u] = log[u]
      BY <2>5, AcceptEffect, AcceptRecord
    <3>2. put'[s] = Disturb(OpenedInode(f))[s] /\ log'[put[s].id] = log[put[s].id]
      BY <3>1, InodeOfUpload
    <3>3. put'[s] = put[s] /\ InodeOf(s) # OpenedInode(f)
      BY <3>2, DisturbGoesOn
    <3>4. << >> \in Blocks
      BY EmptySeq DEF Blocks
    <3> QED
      BY <1>3, <3>1, <3>3, <3>4
  <2>6. ASSUME ReceiveBlock(a) \/ FinishPut(a) \/ AbortPut(a) PROVE Goal
    <3>1. /\ pc[a] = "recv"
          /\ put[a] \in UploadType(Len(log)) /\ Fits(a)
          /\ put[a].pend \in Nat /\ put[a].got \in Nat
          /\ put[a].pend + 1 \in Nat /\ put[a].got + 1 \in Nat
          /\ put[a].off \in Nat
      BY <2>6, InodeOfUpload, SMTT(60) DEF ReceiveBlock, FinishPut, AbortPut, UploadType
    <3>2. \/ Flush(a, put[a].pend + 1, put[a].got + 1)
          \/ Flush(a, put[a].pend, put[a].got)
          \/ put' = [put EXCEPT ![a].got = @ + 1, ![a].pend = @ + 1] /\ UNCHANGED data
      BY <2>6 DEF ReceiveBlock, FinishPut, AbortPut
    <3>3. CASE a # s
      <4>1. put'[s] = put[s]
        BY <2>6, <3>3, OwnGoesOn
      <4>2. InodeOf(a) # InodeOf(s)
        BY <3>1, <3>3, <4>1, Zenon DEF AloneInv, OnlyWriter
      <4>3. ASSUME NEW k \in Nat, NEW got \in Nat, Flush(a, k, got) PROVE Goal
        <5>1. \/ UNCHANGED data
              \/ \E d \in Blocks : Modify(InodeOf(a), d)
          BY <3>1, <4>3, FlushEffect DEF InodeOf
        <5>2. InodeOf(a) \in Inode
          BY <3>1, InodeOfUpload DEF InodeOf
        <5> QED
          BY <1>2, <1>3, <4>1, <4>2, <5>1, <5>2
      <4> QED
        BY <1>2, <3>1, <3>2, <4>1, <4>3
    <3>4. CASE a = s
      <4>1. put[s].alone /\ put[s].off <= put[s].got /\ data[InodeOf(s)] = Body(put[s].id, put[s].off)
        <5>1. GoesOn(s)
          BY <2>6, <3>4, OwnGoesOn
        <5> QED
          BY <5>1, Zenon DEF GoesOn, AloneInv, AloneHasPrefix
      <4>2. ~put[s].bad => put[s].off + put[s].pend = put[s].got
        BY <3>1, <3>4, Zenon DEF Fits
      <4>3. CASE Flush(s, put[s].pend + 1, put[s].got + 1)
        <5>1. put[s].off <= put[s].got + 1 /\ (~put[s].bad => put[s].off + (put[s].pend + 1) <= put[s].got + 1)
          BY <3>1, <3>4, <4>1, <4>2, SMTT(60)
        <5> QED
          BY <3>1, <3>4, <4>1, <4>3, <5>1, OwnFlush DEF AloneInv, Goal
      <4>4. CASE Flush(s, put[s].pend, put[s].got)
        <5>1. ~put[s].bad => put[s].off + put[s].pend <= put[s].got
          BY <3>1, <3>4, <4>2
        <5> QED
          BY <3>1, <3>4, <4>1, <4>4, <5>1, OwnFlush DEF AloneInv, Goal
      <4>5. CASE put' = [put EXCEPT ![s].got = @ + 1, ![s].pend = @ + 1] /\ UNCHANGED data
        <5>1. put'[s] = [put[s] EXCEPT !.got = @ + 1, !.pend = @ + 1]
          BY <1>1, <4>5
        <5>2. put'[s].off = put[s].off /\ put'[s].got = put[s].got + 1
          BY <3>1, <3>4, <5>1, Zenon DEF UploadType
        <5> QED
          BY <3>1, <3>4, <4>1, <4>5, <5>2 DEF Goal
      <4> QED
        BY <3>2, <3>4, <4>3, <4>4, <4>5
    <3> QED
      BY <3>3, <3>4
  <2> QED
    BY <2>1, <2>2, <2>3, <2>4, <2>5, <2>6
<1> QED
  BY <1>4, <1>5 DEF Goal

LEMMA NextAlone == Types /\ AloneInv /\ [Next]_vars => AloneInv'
<1> SUFFICES ASSUME Types, AloneInv, [Next]_vars PROVE AloneInv'
  OBVIOUS
<1>1. LogStep /\ \A t \in Session : RecvStep(t)
  BY StepOnSessions, StepOnUploads
<1>2. OnlyWriter'
  BY <1>1, NextOnlyWriter DEF AloneInv
<1>3. ASSUME NEW s \in Session, pc'[s] = "recv", put'[s].alone
      PROVE  /\ data'[log'[put'[s].id].inode] = Body(put'[s].id, put'[s].off)
             /\ put'[s].off <= put'[s].got
  <2>1. CASE GoesOn(s)
    <3>1. pc[s] = "recv" /\ put'[s].id = put[s].id /\ log'[put[s].id] = log[put[s].id]
      BY <2>1, Zenon DEF GoesOn
    <3>2. /\ data'[InodeOf(s)] = Body(put[s].id, put'[s].off)
          /\ put'[s].off <= put'[s].got
      BY <1>3, <3>1, UploadStep
    <3> QED
      BY <3>1, <3>2, Zenon DEF InodeOf
  <2>2. ASSUME NEW f \in File, NEW cond \in Condition, NEW len \in Nat, AcceptPut(s, f, cond, len)
        PROVE  /\ data'[log'[put'[s].id].inode] = Body(put'[s].id, put'[s].off)
               /\ put'[s].off <= put'[s].got
    <3>1. /\ OpenedInode(f) \in Inode
          /\ Modify(OpenedInode(f), << >>)
          /\ put'[s].id = Len(log) + 1 /\ put'[s].off = 0 /\ put'[s].got = 0
          /\ log'[Len(log) + 1].inode = OpenedInode(f)
      BY <2>2, AcceptEffect, AcceptRecord, AcceptUpload
    <3>2. << >> \in Blocks
      BY EmptySeq DEF Blocks
    <3>3. data'[OpenedInode(f)] = << >>
      BY <3>1, <3>2, ModifyChanges
    <3> QED
      BY <3>1, <3>3, BodyOfNothing
  <2> QED
    BY <1>1, <1>3, <2>1, <2>2 DEF RecvStep
<1>4. AloneHasPrefix'
  BY <1>3 DEF AloneHasPrefix, InodeOf
<1> QED
  BY <1>2, <1>4 DEF AloneInv

LEMMA InitAlone == Init => AloneInv
BY DEF Init, AloneInv, OnlyWriter, AloneHasPrefix

(* Whenever an upload is cut short, the file holds the first blocks of its *)
(* body, if nobody else wrote to that file meanwhile.                      *)
THEOREM CutShortIsPrefix == Spec => PartIsPrefix
<1>1. Types /\ AloneInv /\ [Next]_vars =>
        [\A s \in Session :
           LET p == put'[s]
           IN  pc[s] = "recv" /\ p.id = put[s].id /\ p.alone
                 => data'[log[p.id].inode] = Body(p.id, p.off) /\ p.off <= p.got]_vars
  BY UploadStep DEF InodeOf
<1> QED
  BY <1>1, InitTypes, NextTypes, InitAlone, NextAlone, PTL DEF Spec, PartIsPrefix

(* Only the end of the body leads from receiving to the answer.            *)
LEMMA AnsweredByFinish ==
  ASSUME Types, [Next]_vars, NEW s \in Session, Answered(s)
  PROVE  FinishPut(s)
<1>1. /\ pc[s] = "recv" /\ pc'[s] = "reply" /\ DOMAIN pc = Session
      /\ pc'[s] # pc[s]
  BY DEF Answered, Types, PcTyped
<1>2. Next
  BY <1>1 DEF vars
<1>3. PICK a \in Session :
         \/ \E f \in File, g \in File, cond \in Condition :
              \/ RefusePut(a, f, cond) \/ Look(a, f) \/ Delete(a, f) \/ Move(a, f, g)
              \/ Copy(a, f, g)
              \/ \E len \in Nat : AcceptPut(a, f, cond, len)
              \/ \E first \in Nat, len \in Nat : OpenForRead(a, f, first, len)
         \/ ReceiveBlock(a) \/ FinishPut(a) \/ AbortPut(a)
         \/ ReplyToPut(a) \/ SendBlock(a) \/ FinishGet(a) \/ Break(a) \/ Close(a)
  BY <1>2, NextCases
<1>4. ASSUME NEW f \in File, NEW g \in File, NEW cond \in Condition,
             \/ RefusePut(a, f, cond) \/ Look(a, f) \/ Delete(a, f) \/ Move(a, f, g)
             \/ Copy(a, f, g)
             \/ \E len \in Nat : AcceptPut(a, f, cond, len)
             \/ \E first \in Nat, len \in Nat : OpenForRead(a, f, first, len)
      PROVE  FALSE
  BY <1>1, <1>4 DEF RefusePut, Look, Delete, Move, Copy, AcceptPut, OpenForRead, files, sessions
<1>5. ASSUME ReceiveBlock(a) \/ AbortPut(a) \/ ReplyToPut(a) \/ SendBlock(a) \/ FinishGet(a)
               \/ Break(a) \/ Close(a)
      PROVE  FALSE
  BY <1>1, <1>5 DEF ReceiveBlock, AbortPut, ReplyToPut, SendBlock, FinishGet, Break, Close
<1>6. CASE FinishPut(a)
  BY <1>1, <1>6 DEF FinishPut
<1> QED
  BY <1>3, <1>4, <1>5, <1>6

(* An answered upload that nobody disturbed, and that met no full disk, is *)
(* stored whole.                                                           *)
THEOREM AnsweredIsWhole == Spec => UploadIntact
<1>1. ASSUME Types, AloneInv, [Next]_vars, NEW s \in Session,
             Answered(s), put[s].alone, ~put'[s].bad
      PROVE  data'[log[put[s].id].inode] = Body(put[s].id, put[s].len)
  <2>1. /\ pc[s] = "recv" /\ put[s].got = put[s].len
        /\ Flush(s, put[s].pend, put[s].got)
    BY <1>1, AnsweredByFinish DEF FinishPut
  <2>2. /\ put[s].pend \in Nat /\ put[s].got \in Nat /\ put[s].off \in Nat
        /\ put[s].off <= put[s].got
        /\ ~put[s].bad => put[s].off + put[s].pend = put[s].got
    <3>1. put[s] \in UploadType(Len(log)) /\ Fits(s)
      BY <1>1, <2>1, InodeOfUpload
    <3>2. put[s].off <= put[s].got
      BY <1>1, <2>1, Zenon DEF AloneInv, AloneHasPrefix
    <3>3. ~put[s].bad => put[s].off + put[s].pend = put[s].got
      BY <2>1, <3>1, Zenon DEF Fits
    <3> QED
      BY <3>1, <3>2, <3>3 DEF UploadType
  <2>3. ~put[s].bad => put[s].off + put[s].pend <= put[s].got
    BY <2>2
  <2>4. /\ data'[InodeOf(s)] = Body(put[s].id, put'[s].off)
        /\ ~put'[s].bad => put'[s].off = put[s].off + put[s].pend
    BY <1>1, <2>1, <2>2, <2>3, OwnFlush DEF AloneInv
  <2>5. ~put[s].bad
    <3>1. put'[s].bad \/ ~put[s].bad
      BY <1>1, <2>1, <2>2, FlushEffect
    <3> QED
      BY <1>1, <3>1, Zenon
  <2>6. put'[s].off = put[s].len
    BY <1>1, <2>1, <2>2, <2>4, <2>5
  <2> QED
    BY <2>4, <2>6 DEF InodeOf
<1>2. Types /\ AloneInv /\ [Next]_vars =>
        [\A s \in Session :
           Answered(s) /\ put[s].alone /\ ~put'[s].bad
             => data'[log[put[s].id].inode] = Body(put[s].id, put[s].len)]_vars
  BY <1>1
<1> QED
  BY <1>2, InitTypes, NextTypes, InitAlone, NextAlone, PTL DEF Spec, UploadIntact
=============================================================================
