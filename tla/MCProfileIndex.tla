---- MODULE MCProfileIndex ----
(* Model values for ProfileIndex: two names beside MIXED-FLEET's.          *)
EXTENDS ProfileIndex, TLC

P(n) == [name |-> n, valid |-> TRUE]
Family(id, profiles) == [id |-> id, shown |-> "GPU", profiles |-> profiles]

\* Both profiles in one family and in two, one of them alone, its family under
\* another display name, one twice in a
\* family and across families, MIXED-FLEET listed, and what is refused outright.
MCCatalogs ==
  {Unreadable,
   <<Family("hopper", <<P("a"), P("b")>>)>>,
   <<Family("hopper", <<P("a")>>), Family("blackwell", <<P("b")>>)>>,
   <<Family("hopper", <<P("a")>>)>>,
   <<[Family("hopper", <<P("a")>>) EXCEPT !.shown = "GPUs"]>>,
   <<Family("hopper", <<P("a"), P("a")>>)>>,
   <<Family("hopper", <<P("a")>>), Family("blackwell", <<P("a")>>)>>,
   <<Family("hopper", <<P("a")>>), Family("hopper", <<P("b")>>)>>,
   <<Family("hopper", <<P("a"), P("m")>>)>>,
   <<Family("", <<P("a")>>)>>,
   <<Family("hopper", <<>>)>>,
   <<[Family("hopper", <<P("a")>>) EXCEPT !.shown = ""]>>,
   <<Family("hopper", <<[P("a") EXCEPT !.valid = FALSE]>>)>>}

Content(n, enabled, m, rest) ==
  [profile |-> n, enabled |-> enabled, ccMode |-> m, rest |-> rest]

\* A profile, with another mode, with another setting, disabled, with a bad
\* mode; another profile; a file with several; one that does not parse.
MCContents ==
  {Content("a", TRUE, "off", 1), Content("a", TRUE, "on", 1), Content("a", TRUE, "off", 2),
   Content("a", FALSE, "off", 1), Content("a", TRUE, "invalid", 1),
   Content("b", TRUE, "off", 1), Content("several", TRUE, "off", 1), Unreadable}

\* One profile, as it was and is no more, or listed twice.
Listed(m) ==
  [name |-> "a", ccMode |-> m, sha256 |-> Content("a", TRUE, m, 1)]
MCIndexes ==
  {<<[id |-> "hopper", shown |-> "GPU", profiles |-> profiles]>> :
     profiles \in {<<Listed("on")>>, <<Listed("off"), Listed("off")>>}}
=============================================================================
