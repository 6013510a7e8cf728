---------------------------- MODULE SerialUpload ----------------------------
(***************************************************************************)
(* Serial recovery's image upload: the bs_upload handler of boot_serial.c  *)
(* with progressive or whole-slot erase, and a client that sends a file in *)
(* chunks over a line that loses packets, goes on from the offset each     *)
(* answer asks for, times out, sends again and starts over.  Offsets are   *)
(* bytes; the flash is written in units of align bytes and erased in       *)
(* sectors.  The client is external: only its use of the protocol counts.  *)
(***************************************************************************)
EXTENDS Integers, Sequences, FiniteSets

CONSTANTS
    align,           \* flash_area_align
    sector_size,     \* bytes of a flash sector
    area_size,       \* bytes of the slot, its trailer included
    trailer_sz,      \* bytes of the trailer, at the end of the slot
    Files,           \* the files a client may upload
    FileSize,        \* bytes of each
    Chunk,           \* bytes of data in a request
    Erased, Old,     \* a byte that is erased; one of earlier contents
    Queue,           \* bound: packets on the line each way
    MaxErrors,       \* errors after which a client gives up
    MaxSessions, MaxLost, MaxFaults, MaxResets  \* bounds on what happens

ASSUME UploadAssumption ==
    /\ {align, sector_size, area_size, trailer_sz, Chunk, Queue} \subseteq Nat \ {0}
    /\ sector_size % align = 0 /\ area_size % sector_size = 0
    /\ Chunk >= align
    /\ FileSize \in [Files -> Nat \ {0}]
    /\ {MaxErrors, MaxSessions, MaxLost, MaxFaults, MaxResets} \subseteq Nat

VARIABLES
    conf,    \* the build: progressive erase or not, start_off of the image
    flash,   \* the slot, byte by byte
    up,      \* RAM: the static variables of bs_upload
    client,  \* the client: its session, file, next offset, whether it waits, its errors
    reqs, rsps,  \* packets on the line
    file,    \* the file of the last chunk at offset 0 (ghost)
    used     \* how often each bounded event has happened

vars == <<conf, flash, up, client, reqs, rsps, file, used>>

EINVAL == -1
Bytes == 0..area_size - 1
AllErased == [b \in Bytes |-> Erased]
NoUpload == [img_size |-> 0, curr_off |-> 0, not_yet_erased |-> 0]
boot_status_off == area_size - trailer_sz
Count(e) == used' = [used EXCEPT ![e] = @ + 1]
May(e, max) == used[e] < max
MayFail == used.fault + used.trailer < MaxFaults

-----------------------------------------------------------------------------

(* Variants of the operators below, with a fault each.                      *)
TrailerKept(f) == f
OffsetEchoed(r) == r.off
EraseKeptOnRestart(r) ==
    IF r.off = 0 THEN [img_size |-> r.len, curr_off |-> 0, not_yet_erased |-> up.not_yet_erased]
    ELSE up

(* erase_range: where the erase of start..end stops, at a sector boundary.  *)
(* A start left by a failed erase is no offset of the slot.                 *)
erase_range(start, end) ==
    IF end >= area_size \/ start < 0 THEN EINVAL
    ELSE IF end < start THEN start
    ELSE ((end \div sector_size) + 1) * sector_size

EraseBytes(f, start, stop) == [b \in Bytes |-> IF b >= start /\ b < stop THEN Erased ELSE f[b]]

(* The end of an upload erases the sector that the trailer starts in.       *)
status_sector == (boot_status_off \div sector_size) * sector_size
TrailerErased(f) == EraseBytes(f, status_sector, erase_range(status_sector, status_sector))

(* How much of a chunk is written: all of the last one, of the others what  *)
(* fills units of align bytes.                                              *)
Consumed(off, len, size) ==
    LET rem == len % align
    IN IF off + len < size THEN len - rem ELSE len

(* The bytes off..off+n-1 of file f go to the slot; programming clears bits *)
(* only, so that a byte that held another value does not get the new one.   *)
Program(fl, f, off, n) ==
    [b \in Bytes |->
        IF b - conf.start_off \in off..off + n - 1
        THEN IF fl[b] \in {Erased, <<f, b - conf.start_off>>} THEN <<f, b - conf.start_off>> ELSE Old
        ELSE fl[b]]

(* A chunk at offset 0 starts the upload from the beginning.                *)
Restarted(r) ==
    IF r.off = 0 THEN [img_size |-> r.len, curr_off |-> 0, not_yet_erased |-> 0]
    ELSE up

(* The offset asked for when a chunk is not the next one.                   *)
WantedOff(r) == up.curr_off

Answer(r, rc, off) ==
    /\ reqs' = Tail(reqs)
    /\ rsps' = Append(rsps, [seq |-> r.seq, rc |-> rc, off |-> off])

-----------------------------------------------------------------------------

(* A chunk that is not the next one, or runs past the end: no change, and   *)
(* the first kind is answered with the offset that is wanted.               *)
NotNext ==
    /\ reqs # <<>> /\ Len(rsps) < Queue
    /\ LET r == Head(reqs)
       IN /\ r.off # 0
          /\ r.off # up.curr_off \/ up.curr_off + r.size > up.img_size
          /\ Answer(r, IF r.off # up.curr_off THEN 0 ELSE EINVAL, WantedOff(r))
    /\ UNCHANGED <<conf, flash, up, client, file, used>>

IsNext(r) == r.off = 0 \/ (r.off = up.curr_off /\ up.curr_off + r.size <= up.img_size)

(* The image does not fit, or an erase fails, at any of its sectors.        *)
EraseFails ==
    /\ reqs # <<>> /\ Len(rsps) < Queue /\ IsNext(Head(reqs))
    /\ LET r == Head(reqs)
           u == Restarted(r)
           stop == IF conf.progressive
                   THEN erase_range(u.not_yet_erased, u.curr_off + r.size - 1 + conf.start_off)
                   ELSE IF r.off = 0 THEN area_size ELSE u.not_yet_erased
           large == r.off = 0 /\ r.len > area_size
       IN /\ \/ (large \/ stop = EINVAL) /\ UNCHANGED <<flash, used>>
             \/ /\ ~large /\ MayFail /\ Count("fault")
                /\ \E at \in u.not_yet_erased..stop - 1 :
                       at % sector_size = 0 /\ flash' = EraseBytes(flash, u.not_yet_erased, at)
          /\ up' = IF conf.progressive /\ ~large
                   THEN [u EXCEPT !.not_yet_erased = EINVAL]
                   ELSE [up EXCEPT !.curr_off = u.curr_off]
          /\ file' = IF r.off = 0 THEN r.file ELSE file
          /\ Answer(r, EINVAL, u.curr_off)
    /\ UNCHANGED <<conf, client>>

(* The chunk is erased for and written.  A write fails past the end of the  *)
(* slot, or at any byte; the pieces of an unaligned buffer that went before *)
(* count.  The erase that ends the upload may fail as well.                 *)
Store ==
    /\ reqs # <<>> /\ Len(rsps) < Queue /\ IsNext(Head(reqs))
    /\ LET r == Head(reqs)
           u == Restarted(r)
           stop == IF conf.progressive
                   THEN erase_range(u.not_yet_erased, u.curr_off + r.size - 1 + conf.start_off)
                   ELSE area_size
           start == IF conf.progressive \/ r.off = 0 THEN u.not_yet_erased ELSE area_size
           ready == EraseBytes(flash, start, stop)
           n == Consumed(u.curr_off, r.size, u.img_size)
           data == Program(ready, r.file, u.curr_off, n)
           last == u.curr_off + n = u.img_size /\ conf.progressive
           prepared == IF conf.progressive THEN [u EXCEPT !.not_yet_erased = stop] ELSE u
           moved == [prepared EXCEPT !.curr_off = @ + n]
           inside == u.curr_off + n + conf.start_off <= area_size
       IN /\ r.len <= area_size /\ stop # EINVAL
          /\ file' = IF r.off = 0 THEN r.file ELSE file
          /\ \/ /\ inside /\ flash' = IF last THEN TrailerErased(data) ELSE data
                /\ up' = moved /\ Answer(r, 0, moved.curr_off) /\ UNCHANGED used
             \/ /\ IF inside THEN MayFail /\ Count("fault") ELSE UNCHANGED used
                /\ \E k \in 0..n : \E done \in {0, k - (k % align)} :
                       /\ k + u.curr_off + conf.start_off <= area_size
                       /\ flash' = Program(ready, r.file, u.curr_off, k)
                       /\ up' = [prepared EXCEPT !.curr_off = @ + done]
                       /\ Answer(r, EINVAL, u.curr_off + done)
             \/ /\ inside /\ last /\ MayFail /\ Count("trailer")
                /\ flash' = data
                /\ up' = moved /\ Answer(r, EINVAL, moved.curr_off)
    /\ UNCHANGED <<conf, client>>

(* A reset of the board: the packets on the line are gone as well.          *)
Reset ==
    /\ May("reset", MaxResets) /\ Count("reset")
    /\ up' = NoUpload
    /\ reqs' = <<>> /\ rsps' = <<>>
    /\ UNCHANGED <<conf, flash, client, file>>

-----------------------------------------------------------------------------

(* The client.  An upload starts at offset 0, with a new sequence number.   *)
Afresh(f, n) == [seq |-> client.seq + 1, file |-> f, off |-> 0, waits |-> FALSE, errors |-> n]

Begin(f) ==
    /\ May("session", MaxSessions) /\ Count("session")
    /\ client' = Afresh(f, 0)
    /\ UNCHANGED <<conf, flash, up, reqs, rsps, file>>

Finished == client.off = FileSize[client.file]
Smaller(a, b) == IF a < b THEN a ELSE b

Send ==
    /\ client.seq > 0 /\ ~client.waits /\ ~Finished /\ Len(reqs) < Queue
    /\ client.errors <= MaxErrors
    /\ reqs' = Append(reqs, [seq |-> client.seq, file |-> client.file, off |-> client.off,
                             len |-> FileSize[client.file],
                             size |-> Smaller(Chunk, FileSize[client.file] - client.off)])
    /\ client' = [client EXCEPT !.waits = TRUE]
    /\ UNCHANGED <<conf, flash, up, rsps, file, used>>

Timeout ==
    /\ client.waits /\ Len(reqs) < Queue
    /\ client' = [client EXCEPT !.waits = FALSE]
    /\ UNCHANGED <<conf, flash, up, reqs, rsps, file, used>>

(* An answer.  An error ends the upload and the client starts over, or      *)
(* gives up; answers that belong to what it did before do not count.        *)
Receive ==
    /\ rsps # <<>>
    /\ LET a == Head(rsps)
       IN client' = IF a.seq # client.seq THEN client
                    ELSE IF a.rc = 0 THEN [client EXCEPT !.off = a.off, !.waits = FALSE]
                    ELSE Afresh(client.file, client.errors + 1)
    /\ rsps' = Tail(rsps)
    /\ UNCHANGED <<conf, flash, up, reqs, file, used>>

Lose ==
    /\ May("lost", MaxLost) /\ Count("lost")
    /\ \/ reqs # <<>> /\ reqs' = Tail(reqs) /\ UNCHANGED rsps
       \/ rsps # <<>> /\ rsps' = Tail(rsps) /\ UNCHANGED reqs
    /\ UNCHANGED <<conf, flash, up, client, file>>

-----------------------------------------------------------------------------

Init ==
    /\ conf \in [progressive : BOOLEAN, start_off : {0, sector_size}]
    /\ flash = [b \in Bytes |-> Old]
    /\ up = NoUpload
    /\ \E f \in Files :
           client = [seq |-> 0, file |-> f, off |-> 0, waits |-> FALSE, errors |-> 0] /\ file = f
    /\ reqs = <<>> /\ rsps = <<>>
    /\ used = [e \in {"session", "lost", "fault", "trailer", "reset"} |-> 0]

Device == NotNext \/ EraseFails \/ Store
Client == Send \/ Receive

Next ==
    \/ Device \/ Reset \/ Client
    \/ \E f \in Files : Begin(f)
    \/ Timeout \/ Lose

Spec == Init /\ [][Next]_vars

-----------------------------------------------------------------------------

(* Every variable has its type.                                             *)
TypeOK ==
    /\ up \in [img_size : 0..area_size, curr_off : 0..area_size,
               not_yet_erased : -1..area_size]
    /\ up.not_yet_erased # EINVAL => up.not_yet_erased % sector_size = 0
    /\ client.off \in 0..FileSize[client.file]
    /\ Len(reqs) <= Queue /\ Len(rsps) <= Queue

Holds(b, f) == flash[b + conf.start_off] = <<f, b>>

(* bs_upload does not check that a file leaves room for the trailer.        *)
Fits(f) == FileSize[f] + conf.start_off <= status_sector

(* bs_upload: the bytes below the offset it asks for next are those of the  *)
(* file that was begun last, whatever was lost, sent twice, failed or begun *)
(* again; none was programmed over an earlier value.                        *)
PrefixWritten == Fits(file) => \A b \in 0..up.curr_off - 1 : Holds(b, file)

(* A client that was told that its upload is complete has its whole file in *)
(* the slot, and the first sector of a secondary slot, where the boot       *)
(* loader would take a header for that of an image to revert to, is erased. *)
(* So is the trailer, where it would find an old request, unless that last  *)
(* erase failed.  Files take more than one request: one sent twice with all *)
(* of a file starts over when the first has been answered.                  *)
Stale ==
    0..conf.start_off - 1
    \cup IF used.trailer = 0 THEN boot_status_off..area_size - 1 ELSE {}
ToldMeansStored ==
    (client.seq > 0 /\ Finished /\ Fits(client.file)) =>
        /\ \A b \in 0..FileSize[client.file] - 1 : Holds(b, client.file)
        /\ \A b \in Stale : flash[b] = Erased

(* As long as something can be sent, answered or waited for it happens, and *)
(* the client sends until it is told that the upload is complete: then it   *)
(* is told so in the end and for good, however the bounded number of        *)
(* losses, faults and resets falls, unless it went on to a file that is too *)
(* large.                                                                   *)
Fairness == WF_vars(Device \/ Client \/ Timeout)
FairSpec == Spec /\ Fairness
UploadCompletes == <>[](client.seq > 0 => Finished \/ ~Fits(client.file))
=============================================================================
