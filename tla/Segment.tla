------------------------------ MODULE Segment ------------------------------
(***************************************************************************)
(* One segment of the file, src/src/file/Segment.h: a header followed by   *)
(* its blocks.  A segment is a record with the members of Segment and of   *)
(* its Header; positions in the file are counted in blocks.  Deleted       *)
(* blocks form a list: freeNodesHead is the first one, and each but the    *)
(* last has the index of the next one stored in its own bytes.             *)
(***************************************************************************)
EXTENDS Integers

CONSTANT None   \* std::nullopt

(* What a block of the file holds.  Only the first of these is a user's.    *)
Data(id)     == [kind |-> "data", id |-> id]
Link(b)      == [kind |-> "link", next |-> b]
Zeros        == [kind |-> "zeros"]
SegmentHeader(s) ==
  [kind |-> "segment", allocated |-> s.allocated, occupied |-> s.occupied,
   deleted |-> s.deleted, head |-> s.head]

(* A segment that is about to be initialised, a new one, and one that is    *)
(* read from its header.                                                   *)
Uninitialized == [ready |-> FALSE, offset |-> 0, allocated |-> 0, occupied |-> 0,
                  deleted |-> 0, head |-> None]
NewSegmentAt(offset, size) ==
  [ready |-> TRUE, offset |-> offset, allocated |-> size, occupied |-> 0,
   deleted |-> 0, head |-> None]
LoadSegment(offset, header) ==
  [ready |-> TRUE, offset |-> offset, allocated |-> header.allocated,
   occupied |-> header.occupied, deleted |-> header.deleted, head |-> header.head]

(* Where a block is in the file. *)
Position(s, b) == s.offset + 1 + b

(* Mutant: the header is forgotten. *)
SizeOfBlocks(s) == s.allocated

TotalSize(s) == 1 + s.allocated

FreeBlocks(s) == s.allocated - s.occupied + s.deleted

(* What getIDInBlock makes of the bytes of a block. *)
StoredID(content) == IF content.kind = "link" THEN content.next ELSE 0

(* createBlock: the block it returns, and the segment afterwards. *)
CanCreate(s) == s.deleted > 0 \/ s.allocated > s.occupied

(* Mutant: the other branch. *)
CreatedBlockInverted(s) == IF s.deleted = 0 THEN s.head ELSE s.occupied

CreatedBlock(s) == IF s.deleted > 0 THEN s.head ELSE s.occupied
AfterCreate(s, file) ==
  IF s.deleted > 0
  THEN [s EXCEPT !.deleted = @ - 1,
                 !.head = IF s.deleted > 1
                          THEN StoredID(file[Position(s, s.head)]) ELSE None]
  ELSE [s EXCEPT !.occupied = @ + 1]

(* deleteBlock: the segment afterwards, and the file, whose deleted block   *)
(* is changed only when there is a next one to link to.                     *)
AfterDelete(s, b) == [s EXCEPT !.deleted = @ + 1, !.head = b]

(* Mutant: the link is not stored. *)
FileWithoutLink(s, b, file) == file

FileAfterDelete(s, b, file) ==
  IF s.deleted > 0 THEN [file EXCEPT ![Position(s, b)] = Link(s.head)] ELSE file
=============================================================================
