------------------------------- MODULE TaskStream -------------------------------
(***************************************************************************)
(* The task streams of decoded HWX objects: research/h13_td.py takes a     *)
(* text section apart into tasks and a task into its register records,     *)
(* mint_oracles.py and inspect_hwx.py do so for a whole object, and the    *)
(* template generators put the words together again from the decoded form. *)
(*                                                                         *)
(* A section is a sequence of words and offsets count words: links and     *)
(* text addresses that are no multiple of a word are outside the model.    *)
(* The bit fields of a word are narrower than the hardware's; their widths *)
(* are the constants.  A decoded task keeps, as the code's dictionaries    *)
(* do, the last value written to a register.                               *)
(***************************************************************************)
EXTENDS Integers, Sequences, FiniteSets, SequencesExt

CONSTANTS
  Bases,    \* values of the address field of a record header
  Unit,     \* address step from one H13 register to the next
  Masks,    \* bits of the mask of a packed record header
  Dense,    \* largest count of a packed record without a mask
  Sizes,    \* values of the size field of a task header
  Frame     \* words to which H14 tasks are aligned

Least(a, b) == IF a < b THEN a ELSE b

(* Words before the first record.  The last holds the flags; the first two *)
(* of an H13 task are the size and the place of the next task, the first   *)
(* of an H14 task is its own size.                                         *)
HeaderWords(target) == IF target = "h13" THEN 3 ELSE 2

ExtraHeaderWords(target, words) ==
  IF Len(words) >= HeaderWords(target) /\ words[HeaderWords(target)] % 4 = 3 THEN 1 ELSE 0

(***************************************************************************)
(* decode_task.                                                            *)
(***************************************************************************)
Bit(mask, bit) == (mask \div 2^bit) % 2 = 1

H13Addresses(header) == [k \in 1..(header \div Bases + 1) |-> (header % Bases) + (k - 1) * Unit]

PackedAddresses(header) ==
  LET base == header % Bases
      field == (header \div Bases) % 2^Masks
  IN IF header >= Bases * 2^Masks
     THEN <<base>> \o SetToSortSeq({base + bit + 1 : bit \in {b \in 0..(Masks - 1) : Bit(field, b)}}, <)
     ELSE [k \in 1..((field % Dense) + 1) |-> base + k - 1]

Addresses(target, header) == IF target = "h13" THEN H13Addresses(header) ELSE PackedAddresses(header)

(* The places of the record headers; the last one is 0 when the records    *)
(* do not end where the task does, or an H13 address is unaligned.         *)
RecordPlaces(target, words) ==
  LET first == HeaderWords(target) + ExtraHeaderWords(target, words) + 1
      from[k \in first..(Len(words) + 1)] ==
        IF k > Len(words) THEN <<>>
        ELSE LET next == k + Len(Addresses(target, words[k])) + 1
             IN IF \/ target = "h13" /\ (words[k] % Bases) % Unit # 0
                   \/ next > Len(words) + 1
                THEN <<0>> ELSE <<k>> \o from[next]
  IN IF first > Len(words) THEN <<>> ELSE from[first]

Decodable(target, words) ==
  /\ Len(words) >= HeaderWords(target)
  /\ ~Contains(RecordPlaces(target, words), 0)

(* The words that write registers, as <<place, address>>.                  *)
Writes(target, words) ==
  UNION {{<<p + j, Addresses(target, words[p])[j]>> : j \in 1..Len(Addresses(target, words[p]))} :
         p \in ToSet(RecordPlaces(target, words))}

DecodeTask(target, words) ==
  LET places == RecordPlaces(target, words)
      writes == Writes(target, words)
      LastWrite(address) == CHOOSE w \in writes : w[2] = address /\ \A v \in writes : v[2] = address => v[1] <= w[1]
  IN [size |-> Len(words),
      header |-> SubSeq(words, 1, Least(Len(words), HeaderWords(target) + ExtraHeaderWords(target, words))),
      records |-> [k \in DOMAIN places |->
        [header |-> words[places[k]], address |-> Addresses(target, words[places[k]])[1],
         count |-> Len(Addresses(target, words[places[k]]))]],
      registers |-> [address \in {w[2] : w \in writes} |-> words[LastWrite(address)[1]]]]

(***************************************************************************)
(* split_h13_tasks follows the links, split_h14_tasks walks the frames.    *)
(* Each gives the places of the tasks as [from, size], or Refused, a place *)
(* no task has.                                                            *)
(***************************************************************************)
Refused == <<[from |-> 0, size |-> 0]>>

Zero(section, from, to) == \A k \in (from + 1)..to : section[k] = 0

(* The tasks still to find, when one of that size is at that offset.       *)
SplitH13(section, first, count) ==
  LET from[left \in 0..count, offset \in 0..Len(section), size \in 1..(Sizes + first)] ==
        LET end == offset + size
        IN IF left = 0 \/ size < HeaderWords("h13") \/ end > Len(section) THEN Refused
           ELSE LET next == section[offset + 2]
                IN IF left = 1
                   THEN IF next = 0 /\ end = Len(section) THEN <<[from |-> offset, size |-> size]>> ELSE Refused
                   ELSE IF next < end \/ next > Len(section) \/ ~Zero(section, end, next) THEN Refused
                   ELSE LET rest == from[left - 1, next, (section[offset + 1] % Sizes) + 1]
                        IN IF rest = Refused THEN Refused
                           ELSE <<[from |-> offset, size |-> size]>> \o rest
  IN from[count, 0, first]

Aligned(n) == ((n + Frame - 1) \div Frame) * Frame

SplitH14(section) ==
  LET from[offset \in 0..Len(section)] ==
        IF offset = Len(section) THEN <<>>
        ELSE LET size == section[offset + 1] % Sizes
                 end == offset + size
                 next == Least(Aligned(end), Len(section))
             IN IF size = 0 THEN from[Least(offset + Frame, Len(section))]
                ELSE IF size < HeaderWords("h14") \/ end > Len(section) THEN Refused
                ELSE IF ~Zero(section, end, next) \/ from[next] = Refused THEN Refused
                ELSE <<[from |-> offset, size |-> size]>> \o from[next]
  IN from[0]

Words(section, place) == SubSeq(section, place.from + 1, place.from + place.size)

(***************************************************************************)
(* A whole object: parse_hwx gives each program descriptor the text from   *)
(* its address to the next one's.  A program is [start, first, count].     *)
(***************************************************************************)
ProgramRegion(object, n) ==
  SubSeq(object.text, object.programs[n].start + 1,
         IF n = Len(object.programs) THEN Len(object.text) ELSE object.programs[n + 1].start)

SplitProgram(object, n) ==
  IF object.target = "h13"
  THEN SplitH13(ProgramRegion(object, n), object.programs[n].first, object.programs[n].count)
  ELSE SplitH14(ProgramRegion(object, n))

(* The load commands: each [bytes, kind], a descriptor too short being     *)
(* passed over, their sizes adding up to what the header declares.         *)
CommandsValid(object) ==
  /\ \A k \in DOMAIN object.commands : object.commands[k].bytes >= 1
  /\ FoldLeft(LAMBDA sum, c : sum + c.bytes, 0, object.commands) = object.declared

ParseValid(object) ==
  /\ CommandsValid(object)
  /\ object.programs # <<>>
  /\ \A n \in DOMAIN object.programs : object.programs[n].start < Len(object.text)
  /\ \A n \in 2..Len(object.programs) : object.programs[n - 1].start <= object.programs[n].start
  /\ \A n \in DOMAIN object.programs :
       /\ SplitProgram(object, n) # Refused
       /\ Len(SplitProgram(object, n)) = object.programs[n].count

(* The tasks parse_hwx reports, as the words of each.                      *)
ParsedTasks(object) ==
  FlattenSeq([n \in DOMAIN object.programs |->
    [k \in DOMAIN SplitProgram(object, n) |-> Words(ProgramRegion(object, n), SplitProgram(object, n)[k])]])

(* h13_anec: the last program descriptor is the one it keeps, and the      *)
(* whole text section is split by it.  The constants follow the text.      *)
ExtractedPlaces(object) ==
  LET last == object.programs[Len(object.programs)]
  IN SplitH13(object.text, last.first, last.count)

ExtractValid(object) ==
  /\ CommandsValid(object)
  /\ object.programs # <<>>
  /\ ExtractedPlaces(object) # Refused
  /\ \A k \in DOMAIN ExtractedPlaces(object) : Decodable("h13", Words(object.text, ExtractedPlaces(object)[k]))
  /\ object.constants.offset >= Len(object.text)
  /\ object.constants.address = object.constants.offset

ExtractedTasks(object) == [k \in DOMAIN ExtractedPlaces(object) |-> Words(object.text, ExtractedPlaces(object)[k])]

(***************************************************************************)
(* Rebuilding the words: by count from the first address, as the H13       *)
(* emitters do, or by the addresses of the record's header.                *)
(***************************************************************************)
RebuildByCount(task) ==
  task.header \o FlattenSeq([k \in DOMAIN task.records |->
    <<task.records[k].header>> \o
    [j \in 1..task.records[k].count |-> task.registers[task.records[k].address + (j - 1) * Unit]]])

RebuildByHeader(task) ==
  task.header \o FlattenSeq([k \in DOMAIN task.records |->
    LET addresses == PackedAddresses(task.records[k].header)
    IN <<task.records[k].header>> \o [j \in DOMAIN addresses |-> task.registers[addresses[j]]]])

Rebuild(target, task) == IF target = "h13" THEN RebuildByCount(task) ELSE RebuildByHeader(task)

RoundTrips(target, task) ==
  /\ Len(Rebuild(target, task)) = task.size
  /\ Decodable(target, Rebuild(target, task))
  /\ DecodeTask(target, Rebuild(target, task)) = task

Zeros(n) == [k \in 1..n |-> 0]

(* Mutant: the padding is counted from the end of the task, not of what    *)
(* precedes it.                                                            *)
MutantStreamH13(tasks) ==
  LET to[k \in 0..Len(tasks)] ==
        IF k = 0 THEN <<>>
        ELSE LET words == to[k - 1] \o RebuildByCount(tasks[k])
                 gap == tasks[k].header[2] - tasks[k].size
             IN IF k = Len(tasks) \/ gap < 0 THEN words ELSE words \o Zeros(gap)
  IN to[Len(tasks)]

StreamH13(tasks) ==
  LET to[k \in 0..Len(tasks)] ==
        IF k = 0 THEN <<>>
        ELSE LET words == to[k - 1] \o RebuildByCount(tasks[k])
             IN IF k = Len(tasks) THEN words ELSE words \o Zeros(tasks[k].header[2] - Len(words))
  IN to[Len(tasks)]

(* A zero frame, then the tasks, each aligned but the last.                *)
StreamH14(tasks) ==
  LET to[k \in 0..Len(tasks)] ==
        IF k = 0 THEN Zeros(Frame)
        ELSE LET words == to[k - 1] \o RebuildByHeader(tasks[k])
             IN IF k = Len(tasks) THEN words ELSE words \o Zeros(Aligned(Len(words)) - Len(words))
  IN to[Len(tasks)]

(***************************************************************************)
(* Comparing decoded tasks: diff_tasks of two, varying_words of several.   *)
(* A location is <<"header", index>> or <<"register", address>>.           *)
(***************************************************************************)
Locations(task) ==
  ({"header"} \X DOMAIN task.header) \cup ({"register"} \X DOMAIN task.registers)

At(task, location) ==
  IF location \notin Locations(task) THEN <<>>
  ELSE IF location[1] = "header" THEN <<task.header[location[2]]>>
  ELSE <<task.registers[location[2]]>>

DiffTasks(left, right) ==
  {l \in Locations(left) \cup Locations(right) : At(left, l) # At(right, l)}

VaryingWords(tasks) ==
  {l \in UNION {Locations(t) : t \in tasks} : Cardinality({At(t, l) : t \in tasks}) > 1}
=============================================================================
