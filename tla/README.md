# simdip in TLA+

simdip is a header-only C++23 library of parsers that turn the text of an IP
address into bytes: a portable parser per family (`ada_ip.h`), several SIMD
parsers that must agree with them, and a front end, `parse_ip`, that chooses the
family. This directory models the parsers as state machines, model-checks them
with TLC against grammars of the texts they are meant to accept, and proves with
TLAPS what holds for texts of every length.

## The system

Every parser is a pure function `int parse(const char *text, size_t len, T *out)`
that returns 1 and stores the address, or returns 0. Nothing is shared between
calls, nothing is persisted and no thread is started; the only state is the locals
of the call and the caller's buffer. What is hard is elsewhere: index arithmetic
over fixed arrays, pointers that step back, speculative stores, narrowing
conversions, bytes read beyond the text, and the agreement of seventeen parsers of two
grammars.

| component | state of a call | operations | interacts with | correct when |
|---|---|---|---|---|
| `parse_ip.h` front end | none (two locals) | `is_ipv6_form`, `parse_v4`, `parse_v6`, `parse_ip` | calls one parser per family, chosen at compile time | no text either parser accepts is sent to the other one; the error names the family tried |
| `ada_ip.h` IPv6 | `address[8]`, `piece_index`, `compress`, `pointer` | `parse_ipv6_ada` | called by the front end of the portable build | accepts what `inet_pton` accepts; every subscript in bounds; returns |
| `ada_ip.h` IPv4 | string view, 64-bit accumulator | `parse_ipv4_ada` | front end; fallback of every SIMD IPv4 parser | accepts the URL standard's texts; 32 bits are complete at the store |
| `ada_ipv6_head.h` | as above, plus a length and a colon count | `parse_ipv6_ada_head`, `parse_ipv6_ada_prefilter` | benchmark | equal to `parse_ipv6_ada`; the prefilter rejects no address |
| `vtlmks_ipv6.h` scalar | `headbuf`, `tailbuf`, `tmp` | `hex_value`, `parse_ipv4_tail`, `parse_groups`, `parse_ipv6_scalar` | fallback of both vtlmks SIMD parsers | matches `inet_pton` (its own claim) |
| `vtlmks_ipv6.h` SIMD | lanes, masks, `out` written before validation | `parse_ipv6_avx512` | front end of the AVX-512 build | equal to its scalar reference |
| `vtlmks_ipv6_opt.h` | lanes, rewritten copy of the text | `parse_ipv6_core`, `parse_ipv6_embedded_v4`, `parse_ipv6_avx512_opt` | benchmark | equal to `parse_ipv6_avx512` |
| `avx512ip.h` | lanes, hash table | `parse_ipv4_avx512vl`, `notab` to `notab5`, `strict`, `tiny` | front end; falls back to `parse_ipv4_ada` | strict quads by SIMD, every other text as the fallback answers |
| `mula_sse_ipv4.h`, `simdzone_ipv4.h` | lanes, pattern tables, sixteen bytes from memory | `parse_ipv4_mula_sse`, `parse_ipv4_simdzone` | benchmark | strict dotted quads of the given length, whatever follows them in memory |
| `benchmark.cpp`, `test_parse_ip.cpp` | corpora, counters, CLI flags | generators, verification, timing | all parsers | generated texts are valid; every parser agrees on them |

The behaviours that are hard to test, each at its line, are the hazards of
`PROJECT.json`. There are no races, crashes or lost messages here, as the library
has no threads, no files and no network; what it has instead is an input space no
test suite covers and many ways to say the same thing about it.

## Modules

`Parser` is what every parser promises: a call answers once; it accepts exactly the
texts that denote an address, then leaves that address in the caller's buffer; and
otherwise it leaves the buffer as it was. `Meaning(t)`, the set of the addresses a
text denotes, is a constant operator. It is instantiated with grammars written from
the standards the headers name, never from a parser's algorithm:

| module | grammar | of |
|---|---|---|
| `IPv6Text` | `IPv6Meaning` | `inet_pton(AF_INET6)` |
| `IPv6Text` | `VtlmksMeaning` | the same, with a quad allowed before `::` as `parse_ipv6_scalar` has it |
| `IPv4Text` | `WhatwgMeaning` | the URL standard's IPv4 parser |
| `IPv4Text` | `AdaIPv4Meaning` | the same, with four parts and two dots as `parse_ipv4_ada` has it |
| `IPv4Text` | `StrictQuadMeaning` | `inet_pton(AF_INET)` |
| `QuadText` | `QuadsOf` | the same texts and addresses, by the layout of the dots instead of a split |

The machines, and what they are composed of:

| module | code | state and steps | shown to implement |
|---|---|---|---|
| `Ascii` | `ada_ip.h` 25-34 | character tests | |
| `Word32` | `ada_ip.h` 50, 74-96 | a 32-bit word as two halves, as TLC's integers have 31 bits | |
| `AdaIPv6` | `parse_ipv6_ada` | one action per loop iteration or branch; `pc` names the loop; every local is a variable of the same name | `Parser` with `IPv6Meaning` |
| `IPv4Call` | the arguments and the answer of every IPv4 parser | `input`, `result`, `out` | |
| `AdaIPv4` | `parse_ipv4_ada`, with `std::from_chars` digit by digit | as above | `Parser` with `AdaIPv4Meaning` |
| `AdaHead` | `parse_ipv6_ada_head_impl`, with and without its prefilter (the variable `prefilter`) | one action per piece, octet and move; `parse_hex_piece` and an octet are one step | `Parser` with `IPv6Meaning` |
| `VtlmksScalar` | `parse_ipv6_scalar`, `parse_groups`, `parse_ipv4_tail`, `hex_value` | each loop of `parse_groups` byte by byte, the scan for the end of a token and the two that read it, and the two calls, with their buffers and the bytes of them that were written | `Parser` with `VtlmksMeaning` |
| `Lanes` | the vector instructions of all SIMD parsers | `vpcompressb`, `vpexpandb`, bytes signed and unsigned | |
| `GroupText` | | the texts without a quad, by where their colons are, and those whose last field is a quad: the grammar of the theorems, without folds | |
| `QuadHash` | the perfect hash of `avx512ip.h` and `simdzone_ipv4.h` | the 81 layouts of a quad, the key of a set of lanes, the table | |
| `VtlmksSimd` | `parse_ipv6_avx512` | one action per form; a vector is a function on lanes, a mask a set of lanes; undefined shifts are a choice; the fallback is an instance of `Parser` | `Parser` with the fallback's meaning |
| `VtlmksOpt` | `parse_ipv6_core`, `parse_ipv6_embedded_v4`, `parse_ipv6_avx512_opt` | one action per form of the core, which runs on `src`: the text, or the text rewritten; one each for the rejection without a second parse, the rewrite and the fallback | `Parser` with the fallback's meaning |
| `QuadCall` | a call of one of the ten SIMD IPv4 parsers | `parser` says which; `StrictQuad` is the constant grammar of strict quads | |
| `SimdIPv4` | the eight functions of `avx512ip.h`, chosen by the variable `parser` | lanes and masks as above, the perfect hash and its tables as constant functions; the fallback is an instance of `Parser` | `Parser`, of pairs of a function and a text |
| `SseIPv4` | `parse_ipv4_mula_sse`; `parse_ipv4_simdzone` with `sse_inet_aton` | lanes as above; `after` is what the caller has in memory behind the text, and every load sees it | `Parser` with `StrictQuadMeaning`, of triples of a function, a text and what follows it |
| `ParseIP` | `is_ipv6_form`, `parse_ip` | one action per byte lane of the 64-bit subtraction, so that its borrow is a variable; two instances of `Parser` are the parsers of the build | `Parser` with the union of the two meanings |

`MC...` modules give the constants their values, `MCIPv6Texts`, `MCIPv4Texts`,
`MCQuadTexts` and `MCIPTexts` are the texts, and `...Proofs` the theorems; `TextProofs`
has the lemmas about `Ascii`, `Lanes` and `GroupText` that they share, among them what
the fields of a text are when all are groups, and the value of the digits of one. `IPv4Proofs` is
about all three IPv4 machines, which share `IPv4Call` and for that reason have disjoint
names: `AdaInit`, `SimdInit`, `SseInit` and so on. A composition
takes the contract of its callee and not its algorithm: `ParseIP`, `VtlmksSimd`,
`VtlmksOpt` and `SimdIPv4` call any parser that satisfies `Parser`, and the runs of the
callees show that they do. `VtlmksOpt` also calls `parse_ipv4_avx512vl_strict` on the
quad it has cut out, by the contract that the run `simd_ipv4` shows of it
(`StrictQuad`).

Conventions of the models:

- A text is a sequence of bytes. A call reads no byte outside it: the loads are
  masked (`avx512ip.h` 233-240, `vtlmks_ipv6.h` 240-241, `vtlmks_ipv6_opt.h` 144-150), or
  test for the end first. The two SSE parsers are the exception: they load sixteen bytes,
  which their comments ask the caller to have, so `SseIPv4` has a variable for them.
- Locals that are dead keep their last value. Unsigned arithmetic keeps its width
  where it can wrap (`Uint16`, `Low8`, `Word32`).
- A shift by more than its width (`vtlmks_ipv6.h` 291, 295) may give what `shl` gives
  or what `bzhi` gives, the two instructions a compiler chooses from. The optimised
  derivative uses `_bzhi_u32` and says that this removes the undefined behaviour (42-43);
  the shift by `head` beside it is still undefined for a text of 33 colons in a row, and is
  a choice here too. No choice changes the answer, which the runs show.
- Tables built at compile time are functions. That the hash has no collision, which
  the code states by a `throw` in a `constexpr`, is an assumption TLC evaluates
  (`PerfectHash`); so is that its keys have eight bits (`KeyAssumption`) and that a
  layout which loses some of its dots, but not its end, loses its key (`SubsetsDiffer`).
  No constant of the model occurs in the three, so that they are facts about the one multiplier in the code,
  and TLC has evaluated each of them in full.
- A definition that a comment calls a mutation is a plausible slip in the definition
  below it; nothing in a specification uses it. It is there to show that the
  property beside it in `PROJECT.json` would notice.

## What the runs check

| run | texts | shows |
|---|---|---|
| `ada_ipv6` | `IPv6Texts` | `parse_ipv6_ada` subscripts in bounds, narrows exactly, accumulates octets into zero slots only, starts pieces at boundaries, makes progress, returns, and implements `inet_pton` |
| `ada_ipv4` | `IPv4Texts` | `parse_ipv4_ada` has 32 bits at the store by both ways out, makes progress, returns, and implements `AdaIPv4Meaning` |
| `ada_ipv4_whatwg` | `IPv4Texts` | *violated*: it accepts a text the URL standard does not |
| `ada_head` | `HeadTexts` | `parse_ipv6_ada_head` implements `inet_pton` with its prefilter and without, so that the prefilter refuses no address; stores stay in bounds; a move never overwrites a piece still to be moved |
| `vtlmks_scalar` | `ScalarTexts` | stores stay in the buffers and are what the tokens say, only written bytes are copied, no loop crosses into the other side of `::`, every loop ends and the call returns, and it implements `VtlmksMeaning` |
| `vtlmks_scalar_inet_pton` | `ScalarTexts` | *violated*: it does not match `inet_pton` |
| `vtlmks_avx512` | `SimdTexts` | the two SIMD forms agree with the scalar reference, and no address without a dot falls back |
| `vtlmks_opt` | `OptTexts` | the optimised derivative agrees with the scalar reference; the rewrite of a quad changes no meaning, also of a text that is no address; what the core stores and accepts is right; the rejection without a second parse refuses no address; only a quad before `::` costs a scalar walk |
| `sse_ipv4` | `SseTexts`, four tails | both SSE parsers accept the strict quads and nothing else, `mula` whatever follows the text, `simdzone` unless a digit or a dot does |
| `simd_ipv4` | `LaneTexts` | all eight functions keep their contract, and no strict quad pays for the fallback |
| `parse_ip` | `IPTexts` | the probe is exact for both byte orders, and `parse_ip` is the parser of both families |
| `parse_ip_avx512` | `IPTexts` | *violated*: in the AVX-512 build an address of one family gets the error of the other |

**Bounds.** The only bound is the set of texts, and it is chosen by what the parsers
can tell apart. `IPv6Texts`: every placement of present and empty fields, up to ten
of them, two more than an address has; and every valid shape (each number of fields
before and after `::`, and seven to nine without) with each field replaced by each of
some thirty odd ones: too long, upper case, the characters next to the digits and the
letters, bytes with the high bit set, quads with a bad octet in each role. One odd
field at a time is enough for the machines because a field is read with no memory of
the text of the one before it, except for its number and for `::`, and these two
vary freely. `SimdTexts` adds texts of up to 47 bytes with so many
groups or colons that the counts wrap. `IPv4Texts`: one to six parts, one or two of
them odd in radix, width or value around 2^8, 2^16, 2^24 and 2^32, and up to three
trailing dots. `HeadTexts` adds the longest address, one byte more, and runs of up to 46
colons. `LaneTexts`: every layout of dots of up to nine bytes,
every placement of three dots in ten to fifteen (all 81 valid layouts among them),
each of six bytes that are no digit in each position, two odd octets in each pair of
positions, and texts of 16 to 33 bytes, where a mask would no longer hold them.
`OptTexts` adds to `IPv6Texts` every placement of colons in two to nine fields before a
quad, groups of four digits before the shortest and the longest quad (36 characters
before it are the most that fit), and texts of 9 to 22 groups or 29 to 46 colons, where
the counts wrap and the shift is undefined. `SseTexts` are the layouts of `LaneTexts`,
and every text of dots and ones of 10 to 15 characters whose dots have the *key* of a
layout but are not that layout: `simdzone` makes no comparison that would tell them
apart. Each is followed in memory by NULs, by `/24`, by `5` and by `.40`. `IPTexts`: every text of up to five bytes of the five the probe's
arithmetic distinguishes, and addresses of both families.

**Fairness.** A call is straight-line code and loops on one thread, so once called it
keeps taking steps: `WF_vars(Next)`, nothing stronger, and no action is given
fairness of its own. It is used for `Returns` only. `ParseIP`, `VtlmksSimd`,
`VtlmksOpt`, `SimdIPv4`, `SseIPv4` and `AdaHead` have no fairness: the first five have
no loop whose end is in doubt (the eight lanes of the probe are the only one, and `lane`
counts them; the core of `VtlmksOpt` runs at most twice) and their callees' runs check
that these return; the loops of `AdaHead` are those of `AdaIPv6`, for which it is
checked.

**Deadlock** checking is off in every configuration, because a call that has returned
takes no more steps; that it does not stop before is `Returns`.

## What is proved

For texts of any length and content, from `TextsAssumption` (a text is a sequence of
bytes), `OutAssumption` (so is the caller's buffer), `MeaningAssumption` (a parser's
addresses are 4 or 16 bytes), `TailsAssumption` (sixteen bytes are readable) and `QuadAssumption` (so is what `strict` finds in the rest of
a text after a colon), and from the three facts about the hash. TLC evaluates all of them.

- `AdaIPv6Proofs`: `TypeCorrect`, `SafeAccesses`, `ExactCasts`, `ZeroSlots`,
  `PieceBoundaries`, `Progresses`. Neither bounds nor casts are inductive. That an
  octet accumulates into a 16-bit slot without loss needs that the slot was zero when
  the quad began, and that in turn needs to know which slots no piece has reached yet, and
  which one `::` reserved. `IInv` adds these (`SlotInv`), how many digits a hextet has
  behind the pointer, so that stepping back over them stays in the text (`HextetInv`),
  that an octet in progress is at a digit (`OctetInv`), and the indices of the swaps
  (`SwapInv`). `Progresses` is that each step lowers a lexicographic measure of the phase,
  the characters left and the loop inside, although one step moves the pointer back.
  Then what it answers: `GroupsAreRead`, on every text without a dot or without a colon,
  of any length, it accepts the eight groups of one to four hexadecimal digits and the at
  most seven around one `::`, and nothing else, and stores their bytes; and
  `GroupReference`, a call with such a text refines `Parser` with `GroupMeaning`. The loop
  has no split at `::`: the pieces before and after it follow each other in `address`, with
  one slot reserved between them. `ReadInv` says which field of the text each slot holds
  (`SlotsRead`), where the fields that `::` leaves empty are (`GapRead`), which is one more
  if it opens the text (`Shift`), and how many digits of the next are in `value`
  (`InField`). Behind the text it follows the swaps (`GroupsMove`): the groups still to
  move are behind `::`, those moved end the address, and every other slot holds zero, so
  that an exchange with one clears the slot a group leaves. Each rejection is of a text that is no
  address (`PieceRejects`, `HextetRejects`, `ShortRejects`): for a second `::` or a ninth
  piece, the gap found is the only one an address of this text could have
  (`GapIsMeant`). A text without a colon is one hextet or one quad, and ends with at most
  two pieces (`LoneInv`).
- `IPv4Proofs`, about `parse_ipv4_ada`: `AdaTypeCorrect`, `FilledAccumulator`,
  `AdaProgresses`. `AdaInv` adds that the number of segments and the bits of the
  accumulator go together, and that the view is not empty inside the loop (`LoopInv`).
  Then `QuadsAreRead` and `QuadImplementation`: it accepts every strict dotted quad, for the
  address the lanes of the SIMD parsers find. `ReadsQuad` says which octets of the layout are
  in the accumulator and which digits of the next are in `segment_result`; no octet looks
  octal or hexadecimal, and only the end of the text follows the fourth.
- `IPv4Proofs`, about the eight parsers of `avx512ip.h`: `SimdTypeCorrect`;
  `FastPathIsComplete`, no strict quad is left to the fallback; and
  `SimdImplementation`, each of them refines `Parser`. The lemma they rest on is
  `TakesTheQuads`: a text of at most 15 bytes is taken (`~Error`) exactly if it is a
  quad, whichever of the validations looks at it. A text with a layout passes every test
  of where the dots are (`LayoutPasses`). In the other direction the six ways differ: the
  partition that equals the one pinned to its key has that layout, by `PerfectHash`
  (`KeyMakesLayout`); three dots with gaps of 2 to 4, of bytes that may wrap, have one
  (`GapsMakeLayout`), and for `notab2`, which never counts the dots, they are three
  because the fourth delimiter is the end (`FourthIsEnd`); so have three dots that are
  neither first, last nor neighbours, with no four lanes between them (`DotsMakeLayout`).
  Given the layout, the place of a digit is the same by the shuffle table and by clamping
  to the delimiter before it (`SimdPlaces`); the two tests for a leading zero and the two
  for a value over 255, one of them on three digits as a number in base 256, agree
  (`SimdZeros`, `SimdOctets`); and the bytes stored are the octets (`StoresTheQuad`).
  `SimdInv` says that a text in the fallback is no quad.
- `IPv4Proofs`, about the SSE parsers: `SseTypeCorrect` and `SseImplementation`.
  `MulaTakesTheQuads` follows `mula` through its four components. For `simdzone` there
  are two directions. What it accepts is a quad (`ZoneAcceptsQuads`) although it compares
  no dot with the layout found: every lane where the layout has a digit holds a digit, as
  any other byte is at most -119 after the saturating operations and makes its
  16-bit sum more than 255 as an unsigned number, a leading zero or not (`ZoneTotal`,
  `ZonePlaces`); so the dots of the text are among those of the layout, and all of them
  by `SubsetsDiffer`. And a quad is accepted (`ZoneAcceptsEveryQuad`) if no
  digit and no dot follows it (`EndIsFound`), because then the length it finds is its own.
- `ParseIPProofs`: `TypeCorrect`, with the bounds of the bytes the probe loads;
  `ProbeIsExact`, the zero-byte identity with its borrows, from the invariant that below
  the first colon nothing borrows and nothing hits (`ProbeInv`); and `Implementation`,
  that `parse_ip` refines `Parser` with the union of the two meanings for *any* two
  parsers with `ColonDecides`: every IPv6 text has a colon among its first five bytes, no
  IPv4 text has one, and none is empty. That hypothesis is exactly what the note at the
  top of `parse_ip.h` argues. It is a hypothesis and not an assumption because it depends
  on the build: TLC evaluates it for the portable parsers (`PortableColonDecides` in
  `MCParseIP`), and for the AVX-512 build it is false, which is what the run
  `parse_ip_avx512` shows.

- `AdaHeadProofs`: `TypeCorrect`, `SafeStores`, `MovesLoseNothing`, prefiltered or not.
  That a move overwrites nothing needs a window: while `i` pieces are left, the slots
  from `compress + i` to `dest + i` hold zero (`MoveInv`), which begins as the slots no
  piece has reached (`ZeroInv`) and moves down with each step because the source slot is
  cleared. `QuadInv` is why one test of `piece_index` at the head of the loop is enough
  for the two advances of a quad.
- `VtlmksScalarProofs`: `TypeCorrect`, `ExactStores`, `OnlyWrittenIsProduced`,
  `TokensOnTheirSide`. `BufInv` follows three buffers through two calls of
  `parse_groups`: what a call has produced is written, nothing after it is, and the
  buffer of the call to come is as it was. `RunInv` bounds the token by its run, and has
  no colon in what the scan has passed of it (`ScanFindsEnd`: it stops at the first);
  `ValueInv` bounds the value by the digits read. Then what it answers: `GroupsAreRead`,
  on every text without a dot or without a colon, of any length, it accepts the eight
  groups and the at most seven around one `::`, and nothing else, and the bytes are
  theirs; and `GroupReference`, a call with such a text refines `Parser` with
  `GroupMeaning`, so that on `return 0` nothing was stored. The run of fields a call of
  `parse_groups` is given is known from `::` (`RunOfFields`); `ReadInv` says at each
  place which of them were read, that their groups are in the buffer of the call, how
  many digits of the next are in `val`, and what the head left behind for the tail. Each
  rejection is then a run that no address has (`MeantRun`): an empty field beside
  another, a fifth digit, a byte that is no digit, a ninth group, a colon at the end, or
  lengths that do not fit the fields (`SameCount`). A text without a colon is one token
  of at most four bytes (`LoneInv`).
- `TextProofs`: what the rest says about texts and lanes. `vpcompressb` of the lane
  numbers lists the lanes of the mask in order, because ranks are an injection into as
  many numbers as there are lanes, and so a bijection (`RankGrows`, `RankHasLane`,
  `CompressFacts`); so the separators are cuts of the text in order, no colon between two
  of them (`Cuts`). One pair of colons leaves at most nine fields (`GapFields`), and the
  shape it leaves is that of groups around `::`, in both directions (`GapShapeIsGroups`,
  `GroupsHaveGapShape`). A text has one meaning (`OneMeaning`), and one with a dot none
  (`HexIsDotless`). That a set of naturals has a least, and a bounded one a greatest
  member, needs no induction over a predicate: the intervals `0..n` of its members are
  finite sets, and strict inclusion is well-founded on these.
- `VtlmksSimdProofs`: `TypeCorrect`; `CleanFormTakesGroups`: the clean form accepts the
  texts of eight groups of one to four hexadecimal digits, all of them and no other, and
  the sixteen bytes it stored are their values; `GapFormTakesGroups`, the same of the `::`
  form: at most seven groups around one `::`, zeros where it is. In the clean form a
  width of zero wraps to 255 and is found too wide (`WidthIsExact`). In the `::` form one
  pair of colons leaves at most 23 colons, so the shift of line 291 is defined
  (`FewColons`); more than nine colons leave eight groups or more, although only sixteen
  lanes are looked at (`ManyGroups`); what is kept, and the slots it is expanded into, are
  two blocks of lanes, whose ranks are known (`BlocksRanks`, `SlotLanes`). In both, an
  index before the text wraps too, and compares as negative (`IndexIsExact`), and the
  seven bits that index the tables are the byte, because the sign bits are tested apart.
  From these two, `OnlyQuads`: no address without a dot is left to the scalar reference;
  and `Implementation`: the parser refines `Parser`, that is, it is its scalar reference.
  `IInv` says that a text left to the reference is none of groups.
- `VtlmksOptProofs`: `TypeCorrect`, with the rewritten text between 2 and 45 bytes;
  `CoreIsRight`: what the core accepts, of the text or of its rewrite, is the address of
  that text; `DeclinesQuads`: it declines nothing valid without a dot and a colon, so that
  line 251 may reject at once; `RewriteIsExact`: `X:d.d.d.d` denotes what `X:AABB:CCDD`
  denotes, for *every* `X`; `WalksHeadQuads`: every quad that ends an address fits the
  rewrite, and its rewrite is accepted; and `Implementation`: all of it together refines
  `Parser`. The core is proved as above (`CleanFormTakes`, `GapFormTakes`), from lanes that
  hold colons after the text (`LanesAreText`) and a gather that clamps to the colon before
  the field instead of storing zero (`StoredField`). The rewrite has one more colon than
  the text, four places after the last one, and only hexadecimal digits beside it
  (`Rewritten`), so its fields are those of the text but for the last, which became two
  groups of the octets (`RewriteFields`, `RewriteBytes`), and its shape is one of groups
  exactly when the prefix is one before a quad (`RewriteEight`, `RewriteAround`). `IInv`
  says, at each place of the call, which texts the core has declined on the way there
  (`Declined`).

The theorems about meanings have hypotheses, because the scalar reference is a constant
of these modules. `MeaningOfGroups`: on the texts the core may be given, if they have no
quad, the reference finds the addresses of `GroupText`. That the code of the reference
does so is `GroupReference`; together they say that the SIMD parser and its reference
answer alike on every text without a dot. `MeaningOfQuads`: in a text whose
dots are all after its last colon it finds those of the groups before the quad and the
octets. They are hypotheses and not assumptions because the meanings the runs give are
folds over the text; TLC evaluates both, for these meanings and all texts of the runs, in
`MCVtlmksSimd` and `MCVtlmksOpt`. The theorems about the SIMD IPv4 parsers have two of the
same kind: `StrictQuadIsQuad`, that the grammar given is that of `QuadText`, and, for
the parsers with a fallback, `PermissiveTakesQuads`: the fallback takes every strict quad, for the same
address. The grammars of the runs split the text with a fold; TLC evaluates the two
hypotheses for them and all texts of the runs, in `MCSimdIPv4` and `MCSseIPv4`. The second says that
the URL standard extends the strict quads; that the code of `parse_ipv4_ada` does is `QuadsAreRead`. Without it a parser with a fallback would be wrong
about every quad it takes.

Every invariant of the runs is stated by a theorem. Model-checked only, on the bounds
above: `Returns`, as liveness is out of the prover's reach, although `StepsMakeProgress` is
proved of both `ada_ip.h` parsers; that the portable parsers implement their grammars
(`ImplementsInetPton`, `ImplementsPermissive`), and the scalar reference its own
(`ImplementsVtlmks`): these grammars are folds over the text, so that a proof would need
induction over data with an operator as a parameter. What is proved of them instead is
the contract with `GroupMeaning`, of `parse_ipv6_ada` and the scalar reference, and of
`parse_ipv4_ada` the one for strict quads; that leaves their texts with a quad to TLC, as
it leaves all those of `parse_ipv6_ada_head`. For the same reason the hypotheses above
are model-checked only for those grammars.

## Where the code and its comments disagree

1. `parse_ipv4_ada` accepts `1.2.3.4..` (`ada_ip.h` 46, 87, 90), which the URL standard
   it claims to follow (line 12) refuses.
2. `parse_ipv6_scalar` accepts a quad before `::`, as in `1.2.3.4::` (`vtlmks_ipv6.h`
   201), which `inet_pton`, that it "matches" (233), refuses.
3. Because of that, in the AVX-512 build `1.2.3.4::2:3` is an address for `parse_v6`, but
   its first colon is beyond the probe's five bytes: `parse_ip` answers
   `invalid_ipv4`, against `parse_ip.h` 37.

Seen while reading, with no run of its own: `parse_ipv4_simdzone` answers by what follows
the text in memory. A right quad with a digit or a dot after it is rejected, after its
four bytes were stored, where `mula` accepts it; the comment (17) asks the caller for
sixteen readable bytes and says nothing of their content, and the one at the function (198)
has it return 0 "if the input is not a strict dotted-quad of length len", which speaks of
the `len` bytes only. `KeepsContract` states it that
way. And `avx512ip.h` 125 says the value is stored in host
order, line 196 and the code say network order; the latter is what `parse_ip` uses.

## Not modelled

- `benchmark.cpp` and `test_parse_ip.cpp`: random corpora, timing, printing and a list of
  examples. The cross-checks of the benchmark against `inet_pton` are what the grammars
  stand for.
- `CMakeLists.txt`, `cmake/CPM.cmake`: which parsers a build has is the two constants of
  `ParseIP`.
- The instruction-level choice of intrinsics: a lane computation is modelled by what it
  computes. Reads beyond the text by masked loads do not happen by definition of the
  mask; alignment and performance are not modelled.

## Plan

What is left, the most useful first:

1. That `parse_ipv6_scalar` reads a text with one quad, after its last colon, as
   `QuadMeaning` says, which would make `MeaningOfQuads` a fact about its code too:
   `ReadInv` has to say which octets `parse_ipv4_tail` has stored.
2. The same of the quad of `parse_ipv6_ada`, which reads its first digits twice.
3. What `GroupsAreRead` says, of `parse_ipv6_ada_head`.
