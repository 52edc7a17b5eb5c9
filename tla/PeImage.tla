------------------------------ MODULE PeImage ------------------------------
(***************************************************************************)
(* discovery::Image (common/binary/include/pe_image.hpp): a section table  *)
(* from outside is accepted or refused, then bytes of the file or of the   *)
(* loaded module are viewed and searched by their RVA.                     *)
(***************************************************************************)
EXTENDS Naturals, Sequences, FiniteSets, SequencesExt

CONSTANTS
  Images,        \* headers and bytes the constructor may be given
  Rules,         \* patterns that are searched: fixed bytes and their mask
  Word,          \* the 32-bit fields are numbers below it
  Headers,       \* SizeOfHeaders
  ImageSize,     \* SizeOfImage
  FileSize,      \* bytes of the file
  MaxView,       \* bound: the longest view
  Limit,         \* find's `limit`
  MinimumFixed   \* find's `minimum_fixed`
ASSUME SizesAssumption ==
  /\ {Word, Headers, ImageSize, FileSize, MaxView, Limit, MinimumFixed} \subseteq Nat
  /\ Headers <= ImageSize /\ Headers <= FileSize

Fields == 0 .. Word - 1

\* `size` is the larger of VirtualSize and SizeOfRawData.
Section ==
  {s \in [rva : Fields, size : Fields, raw : Fields, rawSize : Fields, code : BOOLEAN] :
     s.rawSize <= s.size}

\* The fields are any numbers, the bytes those of the module or the file.
ASSUME ImagesAssumption ==
  \A i \in Images :
    /\ i.loaded \in BOOLEAN
    /\ i.sections \in Seq(Section)
    /\ DOMAIN i.bytes = 0 .. (IF i.loaded THEN ImageSize ELSE FileSize) - 1

\* A rule has a mask for each byte, and zeros where no byte is fixed.
ASSUME RulesAssumption ==
  \A r \in Rules :
    /\ r.bytes \in Seq(Nat) /\ r.mask \in Seq(BOOLEAN)
    /\ Len(r.mask) = Len(r.bytes)
    /\ \A i \in DOMAIN r.mask : ~r.mask[i] => r.bytes[i] = 0

VARIABLES
  image,     \* [loaded: is it a module snapshot, sections, bytes]
  stage,     \* "new", "open" or "refused"
  answer     \* the last call and what it returned

imageVars == <<image, stage, answer>>

NoAnswer == [call |-> "none"]

ImageInit ==
  /\ image \in Images
  /\ stage = "new"
  /\ answer = NoAnswer

-----------------------------------------------------------------------------
(* The constructor.                                                        *)

\* Mutant: the sum of two 32-bit fields is a 32-bit number.
EndNarrow(start, size) == (start + size) % Word

End(start, size) == start + size

Apart(a, sizeA, b, sizeB) == End(a, sizeA) <= b \/ End(b, sizeB) <= a

SectionFits(s) ==
  /\ s.rva >= Headers /\ End(s.rva, s.size) <= ImageSize
  /\ \/ image.loaded \/ s.rawSize = 0
     \/ s.raw >= Headers /\ End(s.raw, s.rawSize) <= FileSize

SectionsApart(s, t) ==
  /\ Apart(s.rva, s.size, t.rva, t.size)
  /\ \/ image.loaded \/ s.rawSize = 0 \/ t.rawSize = 0
     \/ Apart(s.raw, s.rawSize, t.raw, t.rawSize)

Accepted ==
  /\ \A i \in DOMAIN image.sections : SectionFits(image.sections[i])
  /\ \A i, j \in DOMAIN image.sections :
       j < i => SectionsApart(image.sections[i], image.sections[j])

Construct ==
  /\ stage = "new"
  /\ stage' = IF Accepted THEN "open" ELSE "refused"
  /\ UNCHANGED <<image, answer>>

-----------------------------------------------------------------------------
(* section(), view(), matches().                                           *)

BackedSize(s) == IF image.loaded THEN s.size ELSE s.rawSize

Within(s, rva, length) ==
  rva >= s.rva /\ rva - s.rva <= s.size /\ length <= s.size - (rva - s.rva)

Covering(rva, length) ==
  {i \in DOMAIN image.sections : Within(image.sections[i], rva, length)}

\* The first section that covers the place, if any does.
section(rva, length) == image.sections[Min(Covering(rva, length))]

\* A section's bytes begin here in the file, or in the module.
Base(s) == IF image.loaded THEN s.rva ELSE s.raw

\* view() has an answer: that section has the bytes.
Viewable(rva, length) ==
  /\ Covering(rva, length) # {}
  /\ LET s == section(rva, length)
     IN  /\ rva - s.rva <= BackedSize(s)
         /\ length <= BackedSize(s) - (rva - s.rva)
         /\ image.loaded => s.code

\* Where the bytes of the view lie.
ViewAt(rva, length) ==
  LET s == section(rva, length)
  IN  [i \in 1 .. length |-> Base(s) + (rva - s.rva) + i - 1]

View(rva, length) ==
  /\ stage = "open"
  /\ answer' = [call |-> "view", rva |-> rva, length |-> length,
                result |-> IF Viewable(rva, length) THEN ViewAt(rva, length) ELSE <<>>]
  /\ UNCHANGED <<image, stage>>

Masked(byte, fixed) == IF fixed THEN byte ELSE 0

matches(rva, rule) ==
  LET n == Len(rule.bytes) IN
  /\ Viewable(rva, n)
  /\ section(rva, n).code
  /\ \A i \in 1 .. n :
       Masked(image.bytes[ViewAt(rva, n)[i]], rule.mask[i]) = rule.bytes[i]

-----------------------------------------------------------------------------
(* find(): the longest run of fixed bytes is looked for, then the rest.    *)

Runs(rule) ==
  {r \in (0 .. Len(rule.mask)) \X (0 .. Len(rule.mask)) :
     r[1] + r[2] <= Len(rule.mask) /\ \A i \in 1 .. r[2] : rule.mask[r[1] + i]}
RunLength(rule) == Max({r[2] : r \in Runs(rule)})
Anchor(rule) ==
  LET longest == RunLength(rule)
  IN  Min({r[1] : r \in {q \in Runs(rule) : q[2] = longest}})

Searchable(rule) ==
  /\ RunLength(rule) >= 2
  /\ Cardinality({i \in DOMAIN rule.mask : rule.mask[i]}) >= MinimumFixed

\* Mutant: the last place of the rule's first byte, not of its anchor.
LastAnchorOfRule(s, rule) == BackedSize(s) - Len(rule.bytes)

LastAnchor(s, rule) == BackedSize(s) - Len(rule.bytes) + Anchor(rule)

Byte(s, place) == image.bytes[Base(s) + place]

\* memchr and memcmp on the anchor: where its first byte is, and all of it.
FirstBytes(s, rule, from) ==
  LET first == rule.bytes[Anchor(rule) + 1]
  IN  {p \in from .. LastAnchor(s, rule) : Byte(s, p) = first}
AnchorStands(s, rule, place) ==
  LET anchor == Anchor(rule)
  IN  \A i \in 0 .. RunLength(rule) - 1 :
        Byte(s, place + i) = rule.bytes[anchor + i + 1]

HitAt(s, rule, place) ==
  LET rva == s.rva + place - Anchor(rule)
  IN  IF AnchorStands(s, rule, place) /\ matches(rva, rule) THEN <<rva>> ELSE <<>>

\* The hits in one section, from each place of its bytes on.
Search(s, rule) ==
  LET hits[from \in Anchor(rule) .. LastAnchor(s, rule) + 1] ==
        LET places == FirstBytes(s, rule, from)
        IN  IF places = {} THEN <<>>
            ELSE HitAt(s, rule, Min(places)) \o hits[Min(places) + 1]
  IN  hits

Scan(s, rule) ==
  IF ~s.code \/ BackedSize(s) < Len(rule.bytes) \/ LastAnchor(s, rule) < Anchor(rule)
  THEN <<>> ELSE Search(s, rule)[Anchor(rule)]

\* The hits in the first sections, by their number.
Searches(rule) ==
  LET hits[i \in 0 .. Len(image.sections)] ==
        IF i = 0 THEN <<>> ELSE hits[i - 1] \o Scan(image.sections[i], rule)
  IN  hits

Hits(rule) == Searches(rule)[Len(image.sections)]

Find(rule) ==
  /\ stage = "open" /\ Searchable(rule)
  /\ answer' = [call |-> "find", rule |-> rule,
                excessive |-> Len(Hits(rule)) > Limit, result |-> Hits(rule)]
  /\ UNCHANGED <<image, stage>>

ImageNext ==
  \/ Construct
  \/ \E rva \in 0 .. ImageSize, length \in 1 .. MaxView : View(rva, length)
  \/ \E rule \in Rules : Find(rule)

-----------------------------------------------------------------------------
\* Where a loader takes the byte at an RVA from.
Sources(rva) ==
  {Base(s) + (rva - s.rva) :
     s \in {t \in ToSet(image.sections) :
              t.rva <= rva /\ rva < t.rva + BackedSize(t)}}

\* Of an accepted image no view leaves the image or the bytes there are, and
\* each of its bytes is the only one the table puts at that address: a table
\* of any 32-bit numbers can make view() throw, not read elsewhere.
ViewsAreBacked ==
  answer.call = "view" =>
    \A i \in DOMAIN answer.result :
      /\ answer.rva + i - 1 \in Headers .. ImageSize - 1
      /\ answer.result[i] \in DOMAIN image.bytes
      /\ Sources(answer.rva + i - 1) = {answer.result[i]}

\* The rule's fixed bytes stand at this address, within one code section.
StandsAt(rule, rva) ==
  /\ \E s \in ToSet(image.sections) :
       s.code /\ s.rva <= rva /\ rva + Len(rule.bytes) <= s.rva + BackedSize(s)
  /\ \A i \in DOMAIN rule.bytes :
       rule.mask[i] =>
         \A b \in Sources(rva + i - 1) : image.bytes[b] = rule.bytes[i]

\* find() misses no match, overlapping ones and those at either end of a
\* section included, and reports none twice: what is unique to unique() and
\* locate() is unique in the code.
FindIsExact ==
  answer.call = "find" =>
    /\ ToSet(answer.result) = {rva \in 0 .. ImageSize : StandsAt(answer.rule, rva)}
    /\ Len(answer.result) = Cardinality(ToSet(answer.result))
=============================================================================
