------------------------------- MODULE DBFile -------------------------------
(***************************************************************************)
(* How VideoDB::Save puts the database on disk and VideoDB::Load gets it   *)
(* back (server/VideoDB.cpp), with the file system in between, and with    *)
(* processes and machines that stop at any moment.                         *)
(*                                                                         *)
(* A file is a sequence of cells: the head of the file with the number of  *)
(* videos, the head of a record with the video's name and its number of    *)
(* frames, one cell per frame.  Save collects cells in a block of BS and   *)
(* writes a block when the next cell does not fit; the code does the same  *)
(* with bytes and blocks of 8192.  Cells are never split, as check_flush   *)
(* asks for the room of a whole record head or frame.                      *)
(*                                                                         *)
(* Of the file system it is assumed that operations on the directory reach *)
(* the disk in order, that fdatasync makes a file's data and size          *)
(* permanent, and that unsynced data may be old, new or lost after a power *)
(* failure.                                                                *)
(*                                                                         *)
(* videomatch_log.bin is left out: nothing in the code ever writes it.     *)
(***************************************************************************)
EXTENDS Integers, Sequences, FiniteSets, Functions, SequencesExt

CONSTANTS
  Name,        \* names of videos
  FrameList,   \* the frame sequences of videos
  Worker,      \* the threads of the pool that serve /save
  NoWorker,
  Inode,       \* files of the file system
  NoFile,
  NoName,
  BS,          \* cells of a block
  MAX_STOPS    \* a bound for model checking: how often the process ends

ASSUME DBFileAssumption ==
  /\ BS \in Nat \ {0}
  /\ MAX_STOPS \in Nat
  /\ FrameList \subseteq Seq(Nat)
  /\ NoWorker \notin Worker
  /\ NoFile \notin Inode
  /\ NoName \notin Name

VARIABLES
  up,       \* the server process is running
  stops,    \* history: how often it has ended
  mutex_,   \* the worker that holds VideoDB::mutex_, or NoWorker
  db_,      \* the names in db_, in the order an iteration over db_ meets them
  frames_,  \* the frames of the videos in db_
  pc,       \* per worker: its next step in Save
  fd,       \* per worker: the file it has open
  gen,      \* per worker: cells written or given up
  off,      \* per worker: the offset of its fd
  asked,    \* history, per worker: the videos stored when /save came in
  promised, \* history: the videos stored at a /save that has been answered
  dir,      \* the directory: the files called tmp and db
  ddir,     \* the directory as it is on the medium
  file,     \* the content of each file
  synced    \* the content of each file on the medium

mem_vars  == <<mutex_, db_, frames_>>
disk_vars == <<dir, ddir, file, synced>>
vars == <<up, stops, mutex_, db_, frames_, pc, fd, gen, off, asked, promised, dir, ddir, file, synced>>

NoDir == [tmp |-> NoFile, db |-> NoFile]

(* db_ as a function from names to frames.                                 *)
Videos == [n \in Range(db_) |-> frames_[n]]

Pairs(store) == {<<n, store[n]>> : n \in DOMAIN store}

-----------------------------------------------------------------------------
(***************************************************************************)
(* The file format.                                                        *)
(***************************************************************************)
Cell(kind, name, num) == [kind |-> kind, name |-> name, num |-> num]
Junk == Cell("junk", NoName, 0)

Record(n, fs) ==
  <<Cell("name", n, Len(fs))>> \o [i \in 1..Len(fs) |-> Cell("frame", NoName, fs[i])]

(* What Save writes, all in all.                                           *)
Image(order, frames) ==
  <<Cell("count", NoName, Len(order))>>
    \o FlattenSeq([i \in 1..Len(order) |-> Record(order[i], frames[order[i]])])

(* Load takes the number of records from the head of the file and the      *)
(* length of each from its own head, and never looks at what follows the   *)
(* last one.                                                               *)
IsHead(content, p) == p \in DOMAIN content /\ content[p].kind = "name"

AfterRecord(content, p) ==
  IF IsHead(content, p) THEN p + 1 + content[p].num ELSE Len(content) + 1

(* A deliberately wrong variant, for the sensitivity check of SavedStays:  *)
(* the last record is not read.                                            *)
RecordStarts_Short(content) ==
  LET start[i \in 1..(content[1].num - 1)] ==
        IF i = 1 THEN 2 ELSE AfterRecord(content, start[i - 1])
  IN  start

RecordStarts(content) ==
  LET start[i \in 1..content[1].num] ==
        IF i = 1 THEN 2 ELSE AfterRecord(content, start[i - 1])
  IN  start

IsRecord(content, p) ==
  /\ IsHead(content, p)
  /\ \A j \in 1..content[p].num : p + j \in DOMAIN content /\ content[p + j].kind = "frame"

(* FALSE where the code would read past the end of the file or take one    *)
(* kind of data for another.                                               *)
Loads(content) ==
  /\ content # << >>
  /\ content[1].kind = "count"
  /\ \A p \in Range(RecordStarts(content)) : IsRecord(content, p)

(* Of two records of a name db_.insert keeps the first.                    *)
Loaded(content) ==
  LET start    == RecordStarts(content)
      first(n) == Min({p \in Range(start) : content[p].name = n})
  IN  [n \in {content[p].name : p \in Range(start)} |->
         [j \in 1..content[first(n)].num |-> content[first(n) + j].num]]

(* No db file is an empty database.                                        *)
Readable(d, contents) == d.db # NoFile => Loads(contents[d.db])
Stored(d, contents)   ==
  IF d.db # NoFile /\ Loads(contents[d.db]) THEN Loaded(contents[d.db]) ELSE << >>

-----------------------------------------------------------------------------
Init ==
  /\ up = FALSE
  /\ stops = 0
  /\ mutex_ = NoWorker
  /\ db_ = << >>
  /\ frames_ = << >>
  /\ pc = [t \in Worker |-> "idle"]
  /\ fd = [t \in Worker |-> NoFile]
  /\ gen = [t \in Worker |-> 0]
  /\ off = [t \in Worker |-> 0]
  /\ asked = [t \in Worker |-> {}]
  /\ promised = {}
  /\ dir = NoDir /\ ddir = NoDir
  /\ file = [i \in Inode |-> << >>]
  /\ synced = [i \in Inode |-> << >>]

(* main() loads the database before it serves anything.                    *)
Load ==
  /\ ~ up
  /\ Readable(dir, file)
  /\ up' = TRUE
  /\ frames_' = Stored(dir, file)
  /\ db_' \in SetToSeqs(DOMAIN frames_')
  /\ UNCHANGED <<stops, mutex_, pc, fd, gen, off, asked, promised>>
  /\ UNCHANGED disk_vars

(* Add, under mutex_.  An insertion may change the whole order of db_.     *)
Add ==
  /\ up
  /\ mutex_ = NoWorker
  /\ \E n \in Name \ Range(db_), fs \in FrameList :
       /\ frames_' = [m \in DOMAIN frames_ \cup {n} |-> IF m = n THEN fs ELSE frames_[m]]
       /\ db_' \in SetToSeqs(DOMAIN frames_')
  /\ UNCHANGED <<up, stops, mutex_, pc, fd, gen, off, asked, promised>>
  /\ UNCHANGED disk_vars

-----------------------------------------------------------------------------
(***************************************************************************)
(* Save                                                                    *)
(***************************************************************************)
Goto(t, from, to) == up /\ pc[t] = from /\ pc' = [pc EXCEPT ![t] = to]

SaveRequest(t) ==
  /\ Goto(t, "idle", "open")
  /\ asked' = [asked EXCEPT ![t] = Pairs(Videos)]
  /\ UNCHANGED <<up, stops, fd, gen, off, promised>>
  /\ UNCHANGED mem_vars
  /\ UNCHANGED disk_vars

Unused(i) == i \notin {dir.tmp, dir.db, ddir.tmp, ddir.db} \cup Range(fd)

(* A deliberately wrong variant, for the sensitivity check of              *)
(* ImplementsDurableStore: the file is opened for appending.               *)
SaveOpen_Append(t) ==
  /\ Goto(t, "open", "lock")
  /\ off' = [off EXCEPT ![t] = IF dir.tmp = NoFile THEN 0 ELSE Len(file[dir.tmp])]
  /\ gen' = [gen EXCEPT ![t] = 0]
  /\ IF dir.tmp # NoFile
     THEN /\ fd' = [fd EXCEPT ![t] = dir.tmp]
          /\ UNCHANGED disk_vars
     ELSE \E i \in Inode :
            /\ Unused(i)
            /\ fd' = [fd EXCEPT ![t] = i]
            /\ dir' = [dir EXCEPT !.tmp = i]
            /\ file' = [file EXCEPT ![i] = << >>]
            /\ synced' = [synced EXCEPT ![i] = << >>]
            /\ UNCHANGED ddir
  /\ UNCHANGED <<up, stops, asked, promised>>
  /\ UNCHANGED mem_vars

(* open with O_CREAT and without O_TRUNC, before mutex_ is taken: a file   *)
(* left behind by an earlier save is opened as it is.                      *)
SaveOpen(t) ==
  /\ Goto(t, "open", "lock")
  /\ off' = [off EXCEPT ![t] = 0]
  /\ gen' = [gen EXCEPT ![t] = 0]
  /\ IF dir.tmp # NoFile
     THEN /\ fd' = [fd EXCEPT ![t] = dir.tmp]
          /\ UNCHANGED disk_vars
     ELSE \E i \in Inode :
            /\ Unused(i)
            /\ fd' = [fd EXCEPT ![t] = i]
            /\ dir' = [dir EXCEPT !.tmp = i]
            /\ file' = [file EXCEPT ![i] = << >>]
            /\ synced' = [synced EXCEPT ![i] = << >>]
            /\ UNCHANGED ddir
  /\ UNCHANGED <<up, stops, asked, promised>>
  /\ UNCHANGED mem_vars

(* A deliberately wrong variant, for the sensitivity check of              *)
(* QuietMeansSaved: the mutex is not waited for.                           *)
SaveLock_Anyway(t) ==
  /\ Goto(t, "lock", "write")
  /\ mutex_' = t
  /\ UNCHANGED <<up, stops, db_, frames_, fd, gen, off, asked, promised>>
  /\ UNCHANGED disk_vars

SaveLock(t) ==
  /\ Goto(t, "lock", "write")
  /\ mutex_ = NoWorker
  /\ mutex_' = t
  /\ UNCHANGED <<up, stops, db_, frames_, fd, gen, off, asked, promised>>
  /\ UNCHANGED disk_vars

(* The cells of the next block, the last one perhaps shorter.              *)
BlockOf(t) ==
  LET image == Image(db_, frames_)
      last  == IF gen[t] + BS < Len(image) THEN gen[t] + BS ELSE Len(image)
  IN  SubSeq(image, gen[t] + 1, last)

(* write at an offset, over what the file already holds there.             *)
Put(content, at, cells) ==
  SubSeq(content, 1, at) \o cells \o SubSeq(content, at + Len(cells) + 1, Len(content))

(* A deliberately wrong variant, for the sensitivity check of TypeOK: a    *)
(* flush counts a full block, whatever it held.                            *)
FlushTaking_FullBlock(t, k) ==
  LET i == fd[t] IN
  /\ up /\ pc[t] = "write"
  /\ file' = [file EXCEPT ![i] = Put(@, off[t], SubSeq(BlockOf(t), 1, k))]
  /\ off' = [off EXCEPT ![t] = @ + k]
  /\ gen' = [gen EXCEPT ![t] = @ + BS]
  /\ UNCHANGED <<up, stops, pc, fd, asked, promised, dir, ddir, synced>>
  /\ UNCHANGED mem_vars

(* A flush of which the file system takes the first k cells.  The code     *)
(* goes on with the next block whatever write() returned.                  *)
FlushTaking(t, k) ==
  LET i == fd[t] IN
  /\ up /\ pc[t] = "write"
  /\ file' = [file EXCEPT ![i] = Put(@, off[t], SubSeq(BlockOf(t), 1, k))]
  /\ off' = [off EXCEPT ![t] = @ + k]
  /\ gen' = [gen EXCEPT ![t] = @ + Len(BlockOf(t))]
  /\ UNCHANGED <<up, stops, pc, fd, asked, promised, dir, ddir, synced>>
  /\ UNCHANGED mem_vars

Flush(t) == BlockOf(t) # << >> /\ FlushTaking(t, Len(BlockOf(t)))

(* A deliberately wrong variant, for the sensitivity check of              *)
(* DbFileReadable: the data is not synced before the rename.               *)
SaveSync_Skipped(t) ==
  /\ Goto(t, "write", "rename")
  /\ BlockOf(t) = << >>
  /\ UNCHANGED <<up, stops, fd, gen, off, asked, promised>>
  /\ UNCHANGED mem_vars
  /\ UNCHANGED disk_vars

(* fdatasync once everything is written.                                   *)
SaveSync(t) ==
  /\ Goto(t, "write", "rename")
  /\ BlockOf(t) = << >>
  /\ synced' = [synced EXCEPT ![fd[t]] = file[fd[t]]]
  /\ UNCHANGED <<up, stops, fd, gen, off, asked, promised, dir, ddir, file>>
  /\ UNCHANGED mem_vars

(* A deliberately wrong variant, for the sensitivity check of              *)
(* DoneMeansSaved: the rename does not replace a file that is there.       *)
SaveRename_NoReplace(t) ==
  /\ Goto(t, "rename", "unlock")
  /\ fd' = [fd EXCEPT ![t] = NoFile]
  /\ dir' = IF dir.tmp = NoFile \/ dir.db # NoFile
            THEN dir ELSE [tmp |-> NoFile, db |-> dir.tmp]
  /\ UNCHANGED <<up, stops, gen, off, asked, promised, ddir, file, synced>>
  /\ UNCHANGED mem_vars

(* close, then rename of whatever file is called tmp by now, if any.       *)
SaveRename(t) ==
  /\ Goto(t, "rename", "unlock")
  /\ fd' = [fd EXCEPT ![t] = NoFile]
  /\ dir' = IF dir.tmp = NoFile THEN dir ELSE [tmp |-> NoFile, db |-> dir.tmp]
  /\ UNCHANGED <<up, stops, gen, off, asked, promised, ddir, file, synced>>
  /\ UNCHANGED mem_vars

SaveUnlock(t) ==
  /\ Goto(t, "unlock", "done")
  /\ mutex_' = NoWorker
  /\ UNCHANGED <<up, stops, db_, frames_, fd, gen, off, asked, promised>>
  /\ UNCHANGED disk_vars

(* The reply "Done" is sent, whatever Save returned.                       *)
SaveReply(t) ==
  /\ Goto(t, "done", "idle")
  /\ gen' = [gen EXCEPT ![t] = 0]
  /\ off' = [off EXCEPT ![t] = 0]
  /\ asked' = [asked EXCEPT ![t] = {}]
  /\ promised' = promised \cup asked[t]
  /\ UNCHANGED <<up, stops, fd>>
  /\ UNCHANGED mem_vars
  /\ UNCHANGED disk_vars

Save(t) ==
  \/ SaveRequest(t) \/ SaveOpen(t) \/ SaveLock(t) \/ Flush(t)
  \/ SaveSync(t) \/ SaveRename(t) \/ SaveUnlock(t) \/ SaveReply(t)

-----------------------------------------------------------------------------
(***************************************************************************)
(* The process and the machine stop, and the file system writes back.      *)
(***************************************************************************)
ProcessEnds ==
  /\ stops < MAX_STOPS
  /\ stops' = stops + 1
  /\ up' = FALSE
  /\ mutex_' = NoWorker
  /\ db_' = << >>
  /\ frames_' = << >>
  /\ pc' = [t \in Worker |-> "idle"]
  /\ fd' = [t \in Worker |-> NoFile]
  /\ gen' = [t \in Worker |-> 0]
  /\ off' = [t \in Worker |-> 0]
  /\ asked' = [t \in Worker |-> {}]

(* GET /exit calls exit(0) on the network thread whatever the pool threads *)
(* are doing.                                                              *)
Exit ==
  /\ up
  /\ ProcessEnds
  /\ UNCHANGED promised
  /\ UNCHANGED disk_vars

(* The directory reaches the medium, and files that no name and no open    *)
(* descriptor refers to any more are freed.                                *)
SyncDir ==
  /\ ddir # dir
  /\ ddir' = dir
  /\ LET Used(i) == i \in {dir.tmp, dir.db} \cup Range(fd) IN
     /\ file' = [i \in Inode |-> IF Used(i) THEN file[i] ELSE << >>]
     /\ synced' = [i \in Inode |-> IF Used(i) THEN synced[i] ELSE << >>]
  /\ UNCHANGED <<up, stops, pc, fd, gen, off, asked, promised, dir>>
  /\ UNCHANGED mem_vars

(* What is left of unsynced data is old, new or lost.  Nothing is promised *)
(* of saves that may not have reached the medium.                          *)
PowerFail ==
  /\ ProcessEnds
  /\ promised' = {}
  /\ dir' = ddir
  /\ LET Dirty == {i \in {ddir.tmp, ddir.db} \ {NoFile} : file[i] # synced[i]} IN
     \E left \in [Dirty -> {"old", "new", "lost"}] :
       file' = [i \in Inode |->
                  CASE i \notin {ddir.tmp, ddir.db}       -> << >>
                    [] i \in Dirty /\ left[i] = "old"  -> synced[i]
                    [] i \in Dirty /\ left[i] = "lost" -> <<Junk>>
                    [] OTHER                           -> file[i]]
  /\ synced' = file'
  /\ UNCHANGED ddir

Next ==
  \/ Load \/ Add \/ Exit \/ SyncDir \/ PowerFail
  \/ \E t \in Worker : Save(t)

Spec == Init /\ [][Next]_vars

-----------------------------------------------------------------------------
(***************************************************************************)
(* Properties.  All but QuietMeansSaved are about one save at a time.      *)
(***************************************************************************)
Store    == UNION {[S -> FrameList] : S \in SUBSET Name}
CellType == [kind : {"count", "name", "frame", "junk"}, name : Name \cup {NoName}, num : Nat]
DirType  == [tmp : Inode \cup {NoFile}, db : Inode \cup {NoFile}]

(* The type of the state; a save never writes past the end of its image.   *)
TypeOK ==
  /\ up \in BOOLEAN
  /\ stops \in 0..MAX_STOPS
  /\ mutex_ \in Worker \cup {NoWorker}
  /\ frames_ \in Store
  /\ db_ \in SetToSeqs(DOMAIN frames_)
  /\ pc \in [Worker -> {"idle", "open", "lock", "write", "rename", "unlock", "done"}]
  /\ fd \in [Worker -> Inode \cup {NoFile}]
  /\ \A t \in Worker : mutex_ = t => gen[t] \in 0..Len(Image(db_, frames_))
  /\ off \in [Worker -> Nat]
  /\ asked \in [Worker -> SUBSET (Name \X FrameList)]
  /\ promised \in SUBSET (Name \X FrameList)
  /\ dir \in DirType /\ ddir \in DirType
  /\ file \in [Inode -> Seq(CellType)]
  /\ synced \in [Inode -> Seq(CellType)]

(* Whatever stops whenever, the next process finds a db file it can read   *)
(* to the last record it announces: neither a half-written file, nor the   *)
(* remains of an aborted save under a shorter one, nor lost data.          *)
DbFileReadable == Readable(dir, file) /\ Readable(ddir, synced)

(* Once /save has answered, and short of a power failure, every video that *)
(* was stored when the request came in is in the db file with its frames:  *)
(* whatever the process is doing, it may stop and nothing of it is lost.   *)
DoneMeansSaved == Readable(dir, file) /\ promised \subseteq Pairs(Stored(dir, file))

(* Short of a power failure, a video in the db file stays there with the   *)
(* frames it has, through any number of saves, exits and restarts.         *)
SavedStays ==
  [][ ~ PowerFail => Pairs(Stored(dir, file)) \subseteq Pairs(Stored(dir', file')) ]_disk_vars

(* Two saves at once share one tmp file, and one may write into the db     *)
(* file the other has just renamed.  Still, when the last of them is done, *)
(* the db file is whole and lacks nothing that was promised.               *)
QuietMeansSaved == (\A t \in Worker : pc[t] \in {"idle", "done"}) => DoneMeansSaved

(* Saving implements the abstract store: the rename is the instant at      *)
(* which the disk gets the whole of what is in memory.                     *)
Durable == INSTANCE DurableStore WITH
  mem     <- Videos,
  disk    <- Stored(dir, file),
  settled <- Stored(ddir, synced)

ImplementsDurableStore == Durable!Spec
=============================================================================
