------------------------------- MODULE HdlPlan -------------------------------
(***************************************************************************)
(* From an ISO image to a game a loader can read: the probe of the image,  *)
(* the partition plan, the stream's own view of the partitions that were   *)
(* created, the copy across their borders, and the metadata that tells a   *)
(* loader where the parts lie (hdl_iso.c, hdl_partition.c, the address     *)
(* arithmetic of hdl_stream.c and of hdl_tools/transaction.inc).           *)
(*                                                                         *)
(* Three pieces of code compute where a byte of the image lies, each from  *)
(* other data: the IOP stream from the lengths of the partitions, the EE   *)
(* status line from the plan, the metadata from plan and start sectors.    *)
(*                                                                         *)
(* All sizes are 512-byte sectors.                                         *)
(***************************************************************************)
EXTENDS Integers, Sequences, FiniteSets, FiniteSetsExt, Functions

CONSTANTS
    Block,           \* sectors of one ISO block (4)
    MainSkip,        \* reserved at the head of the main partition (0x2000)
    SubSkip,         \* ... and of a sub-partition (0x800)
    Sizes,           \* allocation_sizes
    MaxPartitions,   \* HDL_MAX_PARTITIONS
    PayloadLimit,    \* most sectors whose byte count fits 32 bits
    LbaLimit,        \* highest 32-bit sector number
    MinImage,        \* 18 blocks
    Dvd5Max,         \* ISO_DVD5_MAX_BYTES
    IoSectors,       \* HDL_INSTALL_IO_BYTES
    Images, Maxima,  \* image sizes and HDIOC_MAXSECTOR answers
    Places           \* where ps2hdd may put a partition

ASSUME PlanConstants ==
    /\ {Block, MainSkip, SubSkip, MaxPartitions, IoSectors} \subseteq Nat \ {0}
    /\ {PayloadLimit, LbaLimit, MinImage, Dvd5Max} \subseteq Nat
    /\ IsFiniteSet(Sizes) /\ Sizes # {} /\ Sizes \subseteq Nat
    /\ \A s \in Sizes \cup {MainSkip, SubSkip} : s % Block = 0
    /\ \A s \in Sizes : MainSkip < s /\ SubSkip < s
    /\ \A s \in Sizes : s - MainSkip <= PayloadLimit /\ s - SubSkip <= PayloadLimit
    /\ Images \subseteq Nat /\ Maxima \subseteq Nat /\ Places \subseteq Nat \ {0}
    /\ \A p \in Places, s \in Sizes : p + s <= LbaLimit

VARIABLES
    pc,
    image, title,    \* size and volume title of the chosen ISO
    maximum, free,   \* what the drive offers
    slices,          \* hdl_partition_plan_t
    remaining,
    starts,          \* where ps2hdd put the partitions
    offset, left,    \* copy_payload: transferred; rest of the current request
    begun,           \* offset of the current request
    content,         \* sector -> source sector it holds
    reported,        \* <<source sector, LBA>> of the last status line
    metadata         \* the committed block

vars == <<pc, image, title, maximum, free, slices, remaining, starts, offset,
          left, begun, content, reported, metadata>>

NoMetadata == [title |-> "none", entries |-> <<>>]

\* A title is printable, blank, or contains a control character.
Titles == {"printable", "blank", "control"}

Init ==
    /\ pc = "probe"
    /\ image \in Images /\ title \in Titles
    /\ maximum \in Maxima /\ free \in {Max(Sizes), MaxPartitions * Max(Sizes)}
    /\ slices = <<>> /\ remaining = 0 /\ starts = <<>>
    /\ offset = 0 /\ left = 0 /\ begun = 0 /\ content = <<>> /\ reported = <<0, 0>>
    /\ metadata = NoMetadata

-----------------------------------------------------------------------------
(* The image.                                                              *)

\* PVD, root directory and SYSTEM.CNF may each be refused; the title is copied
\* as it is, and a blank one replaced by the disc id.
hdl_iso_probe ==
    /\ pc = "probe"
    /\ \/ /\ image >= MinImage /\ image % Block = 0 /\ image <= Dvd5Max
          /\ title' = IF title = "blank" THEN "printable" ELSE title
          /\ pc' = "plan"
       \/ pc' = "refused" /\ UNCHANGED title
    /\ UNCHANGED <<image, maximum, free, slices, remaining, starts, offset, left,
                   content, begun, reported, metadata>>

-----------------------------------------------------------------------------
(* hdl_partition_plan.                                                     *)

\* The smallest allocation that holds what is left, else the largest allowed.
Bug_choose_allocation(required, limit) ==
    LET enough == {s \in Sizes : s >= required}
    IN  IF enough # {} THEN Min(enough) ELSE Max({s \in Sizes : s <= limit} \cup {0})

choose_allocation(required, limit) ==
    LET allowed == {s \in Sizes : s <= limit}
        enough == {s \in allowed : s >= required}
    IN  IF enough # {} THEN Min(enough)
        ELSE IF allowed # {} THEN Max(allowed) ELSE 0

Skip(i) == IF i = 1 THEN MainSkip ELSE SubSkip

plan_begin ==
    /\ pc = "plan"
    /\ IF image = 0 \/ image % Block # 0 \/ maximum < Min(Sizes)
       THEN pc' = "refused" /\ UNCHANGED <<remaining, maximum>>
       ELSE /\ pc' = "slice" /\ remaining' = image
            /\ maximum' = Min({maximum, Max(Sizes)})
    /\ slices' = <<>>
    /\ UNCHANGED <<image, title, free, starts, offset, left, content, begun, reported, metadata>>

Planned == image - remaining

plan_slice ==
    /\ pc = "slice" /\ remaining # 0
    /\ LET i == Len(slices) + 1
           allocation == choose_allocation(remaining + Skip(i), maximum)
           payload == Min({remaining, allocation - Skip(i)})
       IN  IF Len(slices) >= MaxPartitions \/ allocation = 0 \/ payload > PayloadLimit
           THEN pc' = "refused" /\ UNCHANGED <<slices, remaining>>
           ELSE /\ slices' = Append(slices, [allocation |-> allocation,
                                             offset |-> Planned, payload |-> payload])
                /\ remaining' = remaining - payload
                /\ UNCHANGED pc
    /\ UNCHANGED <<image, title, maximum, free, starts, offset, left, content,
                   begun, reported, metadata>>

Allocated == SumFunction([i \in DOMAIN slices |-> slices[i].allocation])

\* begin_new_install: the plan is complete; does it fit?
plan_end ==
    /\ pc = "slice" /\ remaining = 0
    /\ pc' = IF Allocated > free THEN "refused" ELSE "create"
    /\ UNCHANGED <<image, title, maximum, free, slices, remaining, starts, offset,
                   left, content, begun, reported, metadata>>

-----------------------------------------------------------------------------
(* The partitions, as ps2hdd creates them.                                 *)

Extent(i, start) == start..(start + slices[i].allocation - 1)

\* create_partitions and open_target: any disjoint places, or failure.  The
\* stream learns start and length of every part from ps2hdd.
create_partitions ==
    /\ pc = "create"
    /\ \/ /\ \E s \in [DOMAIN slices -> Places] :
                /\ \A i, j \in DOMAIN slices :
                      i # j => Extent(i, s[i]) \cap Extent(j, s[j]) = {}
                /\ starts' = s
          /\ pc' = "copy" /\ offset' = 0 /\ left' = 0
       \/ pc' = "refused" /\ UNCHANGED <<starts, offset, left>>
    /\ UNCHANGED <<image, title, maximum, free, slices, remaining, content,
                   begun, reported, metadata>>

Capacity(i) == slices[i].allocation - Skip(i)

Before(i) == SumFunctionOnSet([j \in DOMAIN slices |-> Capacity(j)], 1..(i - 1))

\* The part a position falls in, the sector within it, and what is left of it.
locate_position(position) ==
    LET i == Min({j \in DOMAIN slices : position < Before(j + 1)})
    IN  [part |-> i, sector |-> Skip(i) + position - Before(i),
         available |-> Before(i + 1) - position]

-----------------------------------------------------------------------------
(* copy_payload on the EE and stream_transfer on the IOP.                  *)

physical_lba(position) ==
    LET i == CHOOSE j \in DOMAIN slices :
                 position \in slices[j].offset..(slices[j].offset + slices[j].payload - 1)
    IN  starts[i] + Skip(i) + position - slices[i].offset

copy_payload ==
    /\ pc = "copy" /\ left = 0 /\ offset < image
    /\ left' = Min({IoSectors, image - offset}) /\ begun' = offset
    /\ UNCHANGED <<pc, image, title, maximum, free, slices, remaining, starts,
                   offset, content, reported, metadata>>

\* A chunk that reaches the end of a part goes on in the same part.
Bug_stream_transfer ==
    /\ pc = "copy" /\ left > 0
    /\ LET at == locate_position(offset)
           first == starts[at.part] + at.sector
       IN  /\ content' = [lba \in DOMAIN content \cup first..(first + left - 1) |->
                            IF lba \in first..(first + left - 1)
                            THEN offset + lba - first ELSE content[lba]]
           /\ offset' = offset + left /\ left' = 0
           /\ reported' = <<begun, physical_lba(begun)>>
    /\ UNCHANGED <<pc, image, title, maximum, free, slices, remaining, starts,
                   begun, metadata>>

\* One turn of the loop: as much of the request as the current part holds.  The
\* last turn returns to the EE, which reports where the request began.
stream_transfer ==
    /\ pc = "copy" /\ left > 0
    /\ LET at == locate_position(offset)
           chunk == Min({left, at.available})
           first == starts[at.part] + at.sector
       IN  /\ content' = [lba \in DOMAIN content \cup first..(first + chunk - 1) |->
                            IF lba \in first..(first + chunk - 1)
                            THEN offset + lba - first ELSE content[lba]]
           /\ offset' = offset + chunk /\ left' = left - chunk
           /\ reported' = IF left' = 0 THEN <<begun, physical_lba(begun)>> ELSE reported
    /\ UNCHANGED <<pc, image, title, maximum, free, slices, remaining, starts,
                   begun, metadata>>

-----------------------------------------------------------------------------
(* The metadata block and the readers of it.                               *)

\* Only an empty or overlong text is refused.
copy_metadata_text(text) == text # "blank"

\* data_start is the first sector of the partition.
Bug_Entry(i) ==
    [part_offset |-> slices[i].offset \div Block,
     data_start |-> starts[i], bytes |-> slices[i].payload]

Entry(i) ==
    [part_offset |-> slices[i].offset \div Block,
     data_start |-> starts[i] + Skip(i), bytes |-> slices[i].payload]

Payloads == [i \in DOMAIN slices |-> slices[i].payload]

\* The checks of hdl_metadata_build.
SlicesSound ==
    /\ slices # <<>> /\ Len(slices) <= MaxPartitions
    /\ \A i \in DOMAIN slices :
          /\ slices[i].allocation > Skip(i)
          /\ slices[i].offset = SumFunctionOnSet(Payloads, 1..(i - 1))
          /\ slices[i].offset % Block = 0 /\ slices[i].payload % Block = 0
          /\ slices[i].payload <= slices[i].allocation - Skip(i)
          /\ starts[i] + Skip(i) <= LbaLimit
    /\ SumFunction(Payloads) = image

hdl_metadata_build ==
    /\ pc = "copy" /\ offset = image
    /\ IF SlicesSound /\ copy_metadata_text(title)
       THEN /\ metadata' = [title |-> title, entries |-> [i \in DOMAIN slices |-> Entry(i)]]
            /\ pc' = "installed"
       ELSE pc' = "stopped" /\ UNCHANGED metadata
    /\ UNCHANGED <<image, title, maximum, free, slices, remaining, starts, offset,
                   left, content, begun, reported>>

\* The texts must be printable; then the game is listed by its title and may be
\* deleted.
read_metadata_text(text) == text = "printable"

hdl_metadata_parse(block) ==
    /\ Len(block.entries) \in 1..MaxPartitions
    /\ read_metadata_text(block.title)

Next ==
    \/ hdl_iso_probe \/ plan_begin \/ plan_slice \/ plan_end \/ create_partitions
    \/ copy_payload \/ stream_transfer \/ hdl_metadata_build

Spec == Init /\ [][Next]_vars

\* The loader (outside this repository): block b lies in the last entry that
\* starts at or before it.
LoaderLba(b) ==
    LET E == metadata.entries
        i == Max({j \in DOMAIN E : E[j].part_offset <= b})
    IN  E[i].data_start + Block * (b - E[i].part_offset)

-----------------------------------------------------------------------------
(* Properties.                                                             *)

\* Allocations are sizes ps2hdd makes, at places it hands out.
TypeOK ==
    /\ pc \in {"probe", "plan", "slice", "create", "copy", "installed", "refused", "stopped"}
    /\ title \in Titles /\ {image, maximum, free, remaining, offset, left} \subseteq Nat
    /\ \A i \in DOMAIN slices : slices[i].allocation \in Sizes
    /\ \A i \in DOMAIN starts : starts[i] \in Places

\* A plan never allocates more than the drive's largest partition, so that
\* ps2hdd is never asked for a size it refuses half-way through the parts.
PlanWithinMaximum ==
    \A i \in DOMAIN slices : slices[i].allocation <= maximum

\* Whatever the image size and the drive's limit, a plan that was accepted is one
\* hdl_metadata_build accepts: no game is copied whole and then stopped.
PlanBuilds == pc # "stopped"

\* What hdl_partition_plan accepted is never refused later: not by ps2hdd while
\* the parts are created, nor by the metadata builder after the copy.
PlanHonoured == PlanWithinMaximum /\ PlanBuilds

\* Once installed, the loader finds every block of the image at the place the
\* IOP stream put it, over every border between partitions.
ImageReadable ==
    pc = "installed" =>
        \A b \in 0..((image \div Block) - 1), k \in 0..(Block - 1) :
            LET lba == LoaderLba(b) + k
            IN  lba \in DOMAIN content /\ content[lba] = Block * b + k

\* The copy stays inside the created partitions and behind their reserved heads,
\* where the partition header and the metadata live.
WritesStayInside ==
    \A lba \in DOMAIN content :
        \E i \in DOMAIN starts :
            lba \in (starts[i] + Skip(i))..(starts[i] + slices[i].allocation - 1)

\* The status line names the sector that really received the data.
ReportedWhereWritten ==
    reported # <<0, 0>> =>
        reported[2] \in DOMAIN content /\ content[reported[2]] = reported[1]

\* The three computations of an address agree: IOP stream, status line and the
\* metadata a loader follows.
AddressesAgree == ImageReadable /\ ReportedWhereWritten

\* docs/HDL_INSTALLER_DESIGN.md: a block with magic, a bounded non-empty title and
\* startup name, a known media type and a plausible count is parsed.  Every block
\* hdl_metadata_build accepts is such a block, so an installed game can be listed
\* and deleted.
InstalledIsManageable == pc = "installed" => hdl_metadata_parse(metadata)
=============================================================================
