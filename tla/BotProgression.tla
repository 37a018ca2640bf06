---------------------------- MODULE BotProgression ----------------------------
(***************************************************************************)
(* The bots of an account, from the rows of the import to the surfaces     *)
(* that simulators read (input/state_builder.py, qe/stat_input_compiler.py,*)
(* qe/routing.py, qe/query_derived_composites.py).                         *)
(*                                                                         *)
(* build_runtime_state reads the Bots section row by row, patches what it  *)
(* read with a selected overlay of manual inputs, and only then reads the  *)
(* cards.  The compiler turns the records into ownership rows, track rows  *)
(* and lab rows, which meet again in the surfaces.  Four records hold a    *)
(* bot and are patched one by one: the list of bots, the unlock flags, the *)
(* levels and the typed tracks.                                            *)
(*                                                                         *)
(* A surface is not a number but what is added up in it: the table value   *)
(* of a level or a stated value, and the level of a lab.                   *)
(***************************************************************************)
EXTENDS Integers, SequencesExt

CONSTANTS
  Bot,         \* bots, under the names of the import and of the binding table
  Short,       \* other spellings the compiler knows, such as Gold Bot
  Slug,        \* name or spelling |-> bot
  BotOrder,    \* the bots as the import lists them
  TrackOrder,  \* tracks of a bot as the import lists them
  RangeTrack,  \* the track an overlay may state as an effective range
  LabOf,       \* lab of a bot |-> the bot and the track it adds to
  Mastery,     \* the lab a card copies its level from
  Exports,     \* imports: flag, levels and values of each bot, levels of labs
  Overlays     \* selections: whether the overlay is found, its labs, its bots

None == -1
Blank == ""
Plus == "Bot +"
Name == Bot \union Short
Track == ToSet(TrackOrder)
Lab == DOMAIN LabOf \union {Mastery}

ASSUME NamesAssumption ==
  /\ BotOrder \in Seq(Bot) /\ ToSet(BotOrder) = Bot
  /\ TrackOrder \in Seq(Track) /\ Len(TrackOrder) > 1 /\ RangeTrack \in Track
  /\ Name \intersect {Blank, "true", "false", Plus} = {}
  /\ Slug \in [Name -> Bot] /\ \A b \in Bot : Slug[b] = b
  /\ \A l \in DOMAIN LabOf : LabOf[l] \in Bot \X Track

ASSUME InputsAssumption ==
  /\ \A e \in Exports : e.flag \in [Bot -> {"true", "false"}] /\ e.labs \in [Lab -> Int]
  /\ \A o \in Overlays :
       /\ o.found \in BOOLEAN
       /\ DOMAIN o.labs \subseteq Lab /\ \A l \in DOMAIN o.labs : o.labs[l] \in Int
       /\ DOMAIN o.bots \subseteq Name
       /\ \A n \in DOMAIN o.bots : DOMAIN o.bots[n].tracks \subseteq Track

VARIABLES
  pc,       \* "labs", "rows", "overlay", "done" or "failed"
  export,   \* the import
  overlay,  \* the selected overlay
  block,    \* the bot, by its number, whose rows of the Bots section are next
  line,     \* the next of these rows, 0 for the heading of the section
  current,  \* the bot the row scan is in, Blank before the first
  left,     \* bots of the overlay still to be applied
  account,  \* the records under construction
  ids       \* the records when the section was read
buildVars == <<pc, export, overlay, block, line, current, left, account, ids>>

-----------------------------------------------------------------------------
(* The Bots section: a heading, then for each bot a row per track, the     *)
(* name on the first and the flag on the last, and the row of its plus.    *)

SheetRow(name, attr, level, value) ==
  [name |-> name, attr |-> attr, level |-> level, value |-> value]
Heading == SheetRow(Blank, "Attribute", None, None)
PlusRow == SheetRow(Plus, "Plus", None, None)
TrackRow(e, b, i) ==
  LET t == TrackOrder[i] IN
  SheetRow(IF i = 1 THEN b ELSE IF i < Len(TrackOrder) THEN Blank ELSE e.flag[b],
           t, e.level[b][t], e.value[b][t])
Section(e, k, i) ==
  IF i = 0 THEN Heading ELSE IF i > Len(TrackOrder) THEN PlusRow ELSE TrackRow(e, BotOrder[k], i)

\* A dictionary with the entries of another put into it.
Over(f, g) == [k \in DOMAIN f \union DOMAIN g |-> IF k \in DOMAIN f THEN f[k] ELSE g[k]]
Entry(key, val) == [k \in {key} |-> val]

Flags == {"true", "false"}
Snapshot(level, value, manual, effective) ==
  [level |-> level, value |-> value, manual |-> manual, effective |-> effective]
NoAccount ==
  [labs |-> <<>>, bots |-> {}, unlocks |-> <<>>, upgrades |-> <<>>, tracks |-> <<>>,
   sources |-> {}, mastery |-> None]

\* One iteration of _parse_bots; "now" is the bot after the row's name cell.
Scanned(a, r, now) ==
  [a EXCEPT
     !.bots = IF r.name \in Flags \union {Blank} THEN @ ELSE @ \union {r.name},
     !.unlocks = IF r.name \in Flags /\ current # Blank
                 THEN Over(Entry(current, r.name = "true"), @) ELSE @,
     !.upgrades = IF now # Blank /\ r.level # None THEN Over(Entry(<<now, r.attr>>, r.level), @) ELSE @,
     !.tracks = IF now # Blank
                THEN Over(Entry(<<now, r.attr>>, Snapshot(r.level, r.value, FALSE, FALSE)), @) ELSE @]

\* The patches of an overlay that say something.
Stated(p) == { t \in DOMAIN p.tracks : p.tracks[t].level # None \/ p.tracks[t].value # None }

(* Mutant: the tracks of the overlay take the place of all of the bot's. *)
PatchedWhole(a, n, p) ==
  [a EXCEPT
     !.bots = IF p.unlocked = "true" THEN @ \union {n} ELSE @,
     !.unlocks = IF p.unlocked \in Flags THEN Over(Entry(n, p.unlocked = "true"), @) ELSE @,
     !.tracks = [k \in { <<n, t>> : t \in Stated(p) } \union { l \in DOMAIN @ : l[1] # n } |->
                   IF k[1] # n THEN @[k]
                   ELSE Snapshot(p.tracks[k[2]].level, p.tracks[k[2]].value, TRUE, p.tracks[k[2]].effective)],
     !.sources = @ \union { <<n, t>> : t \in Stated(p) }]

(* Mutant: an unlocked bot is not added to the list. *)
PatchedUnlisted(a, n, p) ==
  [a EXCEPT
     !.unlocks = IF p.unlocked \in Flags THEN Over(Entry(n, p.unlocked = "true"), @) ELSE @,
     !.sources = @ \union { <<n, t>> : t \in Stated(p) }]

\* _apply_manual_bot_overrides for one bot of the overlay.
ManualTracks(n, p) ==
  [k \in { <<n, t>> : t \in Stated(p) } |->
     LET q == p.tracks[k[2]] IN Snapshot(q.level, q.value, TRUE, q.effective)]
ManualLevels(n, p) ==
  [k \in { <<n, t>> : t \in { u \in Stated(p) : p.tracks[u].level # None } } |-> p.tracks[k[2]].level]
Patched(a, n, p) ==
  [a EXCEPT
     !.bots = IF p.unlocked = "true" THEN @ \union {n} ELSE @,
     !.unlocks = IF p.unlocked \in Flags THEN Over(Entry(n, p.unlocked = "true"), @) ELSE @,
     !.tracks = Over(ManualTracks(n, p), @),
     !.upgrades = Over(ManualLevels(n, p), @),
     !.sources = @ \union { <<n, t>> : t \in Stated(p) }]

-----------------------------------------------------------------------------
(* build_runtime_state.                                                    *)

BuildInit ==
  /\ pc = "labs" /\ export \in Exports /\ overlay \in Overlays
  /\ block = 1 /\ line = 0 /\ current = Blank /\ left = {} /\ account = NoAccount /\ ids = NoAccount

\* The labs are read and patched first; an unknown overlay ends the build.
ReadLabs ==
  /\ pc = "labs"
  /\ IF overlay.found
     THEN /\ pc' = "rows"
          /\ account' = [account EXCEPT !.labs = Over(overlay.labs, export.labs)]
     ELSE pc' = "failed" /\ UNCHANGED account
  /\ UNCHANGED <<export, overlay, block, line, current, left, ids>>

ReadRow ==
  /\ pc = "rows" /\ block <= Len(BotOrder)
  /\ LET r == Section(export, block, line)
         now == IF r.name \in Flags \union {Blank} THEN current ELSE r.name IN
     current' = now /\ account' = Scanned(account, r, now)
  /\ IF line <= Len(TrackOrder)
     THEN line' = line + 1 /\ UNCHANGED block
     ELSE line' = 1 /\ block' = block + 1
  /\ UNCHANGED <<pc, export, overlay, left, ids>>

SectionRead ==
  /\ pc = "rows" /\ block > Len(BotOrder)
  /\ pc' = "overlay" /\ ids' = account /\ left' = DOMAIN overlay.bots
  /\ UNCHANGED <<export, overlay, block, line, current, account>>

ApplyBot ==
  /\ pc = "overlay"
  /\ \E n \in left : account' = Patched(account, n, overlay.bots[n]) /\ left' = left \ {n}
  /\ UNCHANGED <<pc, export, overlay, block, line, current, ids>>

(* Mutant: the cards are read from the labs before the overlay. *)
ReadCardsEarly ==
  /\ pc = "overlay" /\ left = {}
  /\ pc' = "done" /\ account' = [account EXCEPT !.mastery = export.labs[Mastery]]
  /\ UNCHANGED <<export, overlay, block, line, current, left, ids>>

ReadCards ==
  /\ pc = "overlay" /\ left = {}
  /\ pc' = "done" /\ account' = [account EXCEPT !.mastery = account.labs[Mastery]]
  /\ UNCHANGED <<export, overlay, block, line, current, left, ids>>

BuildNext == ReadLabs \/ ReadRow \/ SectionRead \/ ApplyBot \/ ReadCards
BuildSpec == BuildInit /\ [][BuildNext]_buildVars

-----------------------------------------------------------------------------
(* What the compiler and the resolver make of the records.                 *)

\* A track row asks for the flag of the name it stands under.
TrackOwned(a, n) ==
  IF DOMAIN a.unlocks = {} THEN n \in a.bots ELSE n \in DOMAIN a.unlocks /\ a.unlocks[n]

\* An ownership row of every spelling; that of the full name vouches for the
\* short ones.  The surface is the conjunction of its rows.
Listed(a) == IF DOMAIN a.unlocks = {} THEN a.bots ELSE { n \in DOMAIN a.unlocks : a.unlocks[n] }
(* Mutant: the full name does not vouch for the short one. *)
OwnershipRowExact(a, n) == n \in Listed(a)

OwnershipRow(a, n) == n \in Listed(a) \/ (n \in Short /\ Slug[n] \in Listed(a))
Owned(a, b) == \A n \in Name : Slug[n] = b => OwnershipRow(a, n)

IsEffective(a, n, t) ==
  /\ t = RangeTrack /\ <<n, t>> \in DOMAIN a.tracks
  /\ LET s == a.tracks[<<n, t>>] IN s.manual /\ s.effective /\ s.value # None
HasTrackRow(a, b, t) == <<b, t>> \in DOMAIN a.tracks /\ ~IsEffective(a, b, t)

\* A level is looked up in the tables unless a manual value stands beside it.
TrackValue(s) ==
  IF s.level # None /\ ~(s.manual /\ s.value # None) THEN <<"level", s.level>> ELSE <<"value", s.value>>

(* Mutant: labs are added on top of a stated value. *)
LabDeltaAlways(a, b, t) == { <<l, a.labs[l]>> : l \in { m \in DOMAIN LabOf : LabOf[m] = <<b, t>> } }

\* A lab adds nothing to a track the overlay names.
LabDelta(a, b, t) ==
  { <<l, a.labs[l]>> : l \in { m \in DOMAIN LabOf : LabOf[m] = <<b, t>> /\ LabOf[m] \notin a.sources } }

NoSurface == [track |-> <<"none", 0>>, labs |-> {}]

\* The surface of a track; gated tells whether the ownership surface was
\* resolved before it, which the registry leaves open.
Surface(a, b, t, gated) ==
  IF \/ gated /\ ~Owned(a, b)
     \/ HasTrackRow(a, b, t) /\ ~TrackOwned(a, b)
  THEN NoSurface
  ELSE [track |-> IF HasTrackRow(a, b, t) THEN TrackValue(a.tracks[<<b, t>>]) ELSE NoSurface.track,
        labs |-> LabDelta(a, b, t)]

\* The effective range: stated under any spelling, or derived from the range.
StatedUnder(a, b) == { n \in Name : Slug[n] = b /\ IsEffective(a, n, RangeTrack) }
(* Mutant: a stated range counts for a locked bot. *)
EffectiveRangeLocked(a, b, gated) ==
  IF StatedUnder(a, b) = {} THEN IF Owned(a, b) THEN { <<"derived", 0>> } ELSE {}
  ELSE { <<n, a.tracks[<<n, RangeTrack>>].value>> : n \in StatedUnder(a, b) }

EffectiveRange(a, b, gated) ==
  IF StatedUnder(a, b) = {} THEN IF Owned(a, b) THEN { <<"derived", 0>> } ELSE {}
  ELSE IF gated /\ ~Owned(a, b) THEN {}
  ELSE { <<n, a.tracks[<<n, RangeTrack>>].value>> : n \in { m \in StatedUnder(a, b) : TrackOwned(a, m) } }

Surfaces(a, b, gated) ==
  [owned |-> Owned(a, b), range |-> EffectiveRange(a, b, gated),
   tracks |-> [t \in Track |-> Surface(a, b, t, gated)]]

\* What build_state_identity hashes of these records.
SnapshotId(a) == <<export, a.labs, a.bots, a.upgrades>>

-----------------------------------------------------------------------------
(* Properties.                                                             *)

Done == pc = "done"
Named(b) == b \in DOMAIN overlay.bots

\* Other spellings of a bot under which the overlay states an effective
\* range, and what those it unlocks state.
StatesRange(n) ==
  /\ Named(n) /\ RangeTrack \in DOMAIN overlay.bots[n].tracks
  /\ LET q == overlay.bots[n].tracks[RangeTrack] IN q.effective /\ q.value # None
ShortRanges(b) == { n \in Name \ {b} : Slug[n] = b /\ StatesRange(n) }
UnlockedShortRanges(b) ==
  { <<n, overlay.bots[n].tracks[RangeTrack].value>> :
      n \in { m \in ShortRanges(b) : overlay.bots[m].unlocked = "true" } }

AccountOK(a) ==
  /\ DOMAIN a.labs \in {{}, Lab} /\ a.bots \subseteq Name \union {Plus}
  /\ DOMAIN a.unlocks \subseteq Name /\ a.sources \subseteq Name \X Track
  /\ DOMAIN a.upgrades \subseteq Name \X Track /\ a.mastery \in Int
  /\ DOMAIN a.tracks \subseteq (Name \X Track) \union { <<Plus, "Plus">> }

(* The records hold names, tracks and labs that exist.                     *)
BuildTypeOK ==
  /\ pc \in {"labs", "rows", "overlay", "done", "failed"}
  /\ block \in 1..Len(BotOrder) + 1 /\ line \in 0..Len(TrackOrder) + 1
  /\ current \in Bot \union {Blank, Plus} /\ left \subseteq Name
  /\ AccountOK(account) /\ AccountOK(ids)

(* The ownership surface of a bot is what the overlay says of it, and what *)
(* the flag at the end of its own block says otherwise, although flags are *)
(* attributed by a scan and two spellings feed one surface; an overlay     *)
(* under a short spelling has no say.                                      *)
OwnedAsStated ==
  Done => \A b \in Bot :
    Owned(account, b) = (IF Named(b) /\ overlay.bots[b].unlocked \in Flags
                         THEN overlay.bots[b].unlocked = "true" ELSE export.flag[b] = "true")

(* Nothing of a bot that is not owned counts, neither a track nor a lab    *)
(* nor a range stated under its own name, whichever surface is resolved    *)
(* first.  The one exception: an effective range under another spelling    *)
(* that the overlay unlocks counts, unless the gate comes first.           *)
LockedLeaksOnlyShorts ==
  Done => \A b \in Bot, gated \in BOOLEAN : ~Owned(account, b) =>
    /\ EffectiveRange(account, b, gated) = IF gated THEN {} ELSE UnlockedShortRanges(b)
    /\ \A t \in Track : HasTrackRow(account, b, t) => Surface(account, b, t, gated) = NoSurface

(* What an overlay states of an owned bot is what its surface is: a value  *)
(* alone, without labs on top, or the table value of a level.  A range     *)
(* stated as effective adds to those stated under other spellings.         *)
StatedShows ==
  Done => \A b \in Bot : Named(b) /\ Owned(account, b) =>
    \A t \in Stated(overlay.bots[b]), gated \in BOOLEAN :
      LET p == overlay.bots[b].tracks[t]
          s == Surface(account, b, t, gated) IN
      IF p.value = None THEN s.track = <<"level", p.level>>
      ELSE IF p.effective /\ t = RangeTrack
           THEN EffectiveRange(account, b, gated) = { <<b, p.value>> } \union UnlockedShortRanges(b)
           ELSE s.track = <<"value", p.value>> /\ s.labs = {}

(* An overlay changes no surface of a bot it does not name, and none of a  *)
(* track it says nothing of; but an effective range under another spelling *)
(* takes the place of the derived one.                                     *)
OverlayIsLocal ==
  Done => \A b \in Bot, gated \in BOOLEAN :
    /\ ~Named(b) =>
         Surfaces(account, b, gated) =
           [Surfaces(ids, b, gated) EXCEPT
              !.range = IF ShortRanges(b) = {} THEN @
                        ELSE IF gated /\ ~Owned(account, b) THEN {} ELSE UnlockedShortRanges(b)]
    /\ Named(b) /\ Owned(account, b) = Owned(ids, b) =>
         \A t \in Track \ Stated(overlay.bots[b]) :
           Surface(account, b, t, gated) = Surface(ids, b, t, gated)

(* A card's mastery is the level of its lab after the overlay.             *)
MasteryFollowsLab ==
  Done => account.mastery = Over(overlay.labs, export.labs)[Mastery]

(* Every bot whose flag says unlocked is in the list of bots, which stands *)
(* in for the flags when there are none.                                   *)
UnlockedIsListed ==
  \A n \in DOMAIN account.unlocks : account.unlocks[n] => n \in account.bots

(* The compiled surfaces of an account say what its overlay says, and what *)
(* the import says where the overlay is silent, although five passes write *)
(* the records one after the other.                                        *)
OverlayShows ==
  BuildTypeOK /\ OwnedAsStated /\ StatedShows /\ OverlayIsLocal /\ MasteryFollowsLab /\ UnlockedIsListed

(* kb/global-rules/contracts/stat-query-state-identity.yaml: the account   *)
(* snapshot id owns unlock flags and bot progression.                      *)
IdentityOwnsBots ==
  Done /\ SnapshotId(account) = SnapshotId(ids) =>
    \A b \in Bot : Surfaces(account, b, FALSE) = Surfaces(ids, b, FALSE)

(* ACTIVE_TRANCHE.md:149: locked bots publish zero track values.           *)
LockedReadsZero ==
  Done => \A b \in Bot, gated \in BOOLEAN : ~Owned(account, b) =>
    /\ EffectiveRange(account, b, gated) = {}
    /\ \A t \in Track : HasTrackRow(account, b, t) => Surface(account, b, t, gated) = NoSurface

(* The note of a suppressed lab row: a manual final track override         *)
(* suppressed it.                                                          *)
OnlyFinalSuppresses ==
  Done => \A l \in DOMAIN LabOf : LabOf[l] \in account.sources => account.tracks[LabOf[l]].value # None
=============================================================================
