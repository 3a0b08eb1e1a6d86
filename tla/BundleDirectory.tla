----------------------------- MODULE BundleDirectory -----------------------------
(***************************************************************************)
(* The output directory of a compilation, as the two writers leave it and  *)
(* its reader finds it: program files by number, a manifest, and whatever  *)
(* else lies there.  A file is whose it is, `of` (program i of the command *)
(* under way is i, those of an earlier one are negative), and how many     *)
(* bytes it has.  A manifest is the list of the images it was written for, *)
(* of which it records the byte counts.                                    *)
(***************************************************************************)
EXTENDS Integers, Sequences, FiniteSets

ProgramFile == [of : Int, length : Nat]

Absent == [of |-> 0, length |-> 0]

(* `litter` stands for anything but program files and a manifest, the      *)
(* temporary file of an interrupted atomic write included.                 *)
Contents(there, files, manifest, litter) ==
  [there |-> there, files |-> files, manifest |-> manifest, litter |-> litter]

Nowhere == Contents(FALSE, <<>>, <<>>, FALSE)

(* Mutant: a directory without a manifest counts as empty.                 *)
MutantIsEmpty(d) == d.manifest = <<>>

(* contentsOfDirectoryAtPath: of the H13 and H14 compilers' own check.     *)
IsEmpty(d) == d.files = <<>> /\ d.manifest = <<>> /\ ~ d.litter

(* An atomic write replaces a file whole or leaves what was there; no      *)
(* writer removes a file.                                                  *)
WithProgram(d, i, image) ==
  [d EXCEPT !.files = [k \in DOMAIN @ \cup {i} |-> IF k = i THEN image ELSE @[k]]]

WithManifest(d, images) == [d EXCEPT !.manifest = images]

File(d, i) == IF i \in DOMAIN d.files THEN d.files[i] ELSE Absent

(* bundleWithContentsOfDirectory: every program the manifest names is      *)
(* there and has the recorded number of bytes.  What else it requires of a *)
(* manifest and of an image holds of every one that was written whole.     *)
Readable(d) ==
  /\ d.manifest # <<>>
  /\ \A i \in DOMAIN d.manifest : File(d, i).length = d.manifest[i].length

ReadBack(d) == [i \in DOMAIN d.manifest |-> File(d, i)]

(* The programs read are those the manifest was written for.               *)
Whole(d) == Readable(d) /\ ReadBack(d) = d.manifest

================================================================================
