-------------------------- MODULE MCBotProgression --------------------------
(* Golden Bot, which has a short spelling, and Flame Bot; a cooldown that  *)
(* a lab shortens and a range that an overlay may state as effective.      *)
EXTENDS BotProgression

MCBot == {"Flame Bot", "Golden Bot"}
MCShort == {"Gold Bot"}
MCSlug == [n \in MCBot \union MCShort |-> IF n = "Gold Bot" THEN "Golden Bot" ELSE n]
MCBotOrder == <<"Flame Bot", "Golden Bot">>
MCTrackOrder == <<"Cooldown", "Range">>
MCLabOf == [l \in {"Flame Bot - Cooldown", "Gold Bot - Cooldown"} |->
              IF l = "Gold Bot - Cooldown" THEN <<"Golden Bot", "Cooldown">> ELSE <<"Flame Bot", "Cooldown">>]
MCMastery == "Second Wind Mastery"

MCLabs == DOMAIN MCLabOf \union {MCMastery}
MCTracks == {"Cooldown", "Range"}
MCExports ==
  [flag : [MCBot -> {"true", "false"}],
   level : {[b \in MCBot |-> [t \in MCTracks |-> 0]]},
   value : {[b \in MCBot |-> [t \in MCTracks |-> 3]]},
   labs : {[l \in MCLabs |-> 1]}]

\* A patch of a track, and of a bot.
MCPatch(t) ==
  [level : {None, 2}, value : {None, 9}, effective : IF t = "Range" THEN BOOLEAN ELSE {FALSE}]
MCBotPatch ==
  [unlocked : {"true", "false", ""},
   tracks : UNION { { f \in [T -> UNION { MCPatch(t) : t \in T }] : \A t \in T : f[t] \in MCPatch(t) } :
                    T \in SUBSET MCTracks }]
MCSelected(names, patches) ==
  [found : {TRUE}, labs : { <<>>, MCMastery :> 3, "Flame Bot - Cooldown" :> 2 },
   bots : UNION { [N -> patches] : N \in SUBSET names }]
MCMissing == [found |-> FALSE, labs |-> <<>>, bots |-> <<>>]

MCRangeOnly == { p \in MCBotPatch : \A t \in DOMAIN p.tracks : t = "Range" /\ p.tracks[t].level = None }

\* Overlays of either bot, of both that state values only, of the short
\* spelling, and of both spellings of a bot that state ranges.
MCOverlays ==
  {MCMissing}
  \union MCSelected({"Flame Bot"}, MCBotPatch) \union MCSelected({"Golden Bot"}, MCBotPatch)
  \union MCSelected(MCBot, { p \in MCBotPatch : \A t \in DOMAIN p.tracks : p.tracks[t].level = None })
  \union MCSelected({"Gold Bot"}, MCBotPatch)
  \union MCSelected({"Gold Bot", "Golden Bot"}, MCRangeOnly)
=============================================================================
