---- MODULE MC_Notifier ----
EXTENDS Notifier, TLC

CONSTANTS c1, c2, m1, m2, t1, t2

Acceptor ==
  [enabled |-> TRUE, blackhole |-> FALSE, strategy |-> "global",
   conditions |-> Nil, hours |-> Hours, tags |-> {}, media |-> {},
   hasMedia |-> TRUE]

\* m1 hears of everything.  m2 hears of critical checks with t1, in every
\* other hour, but not of those with both tags.
MCRuleSet ==
  {[Acceptor EXCEPT !.media = {m1}],
   [Acceptor EXCEPT !.strategy = "any_tag", !.conditions = {"critical"},
                    !.hours = {0}, !.tags = {t1}, !.media = {m2}],
   [Acceptor EXCEPT !.blackhole = TRUE, !.strategy = "all_tags",
                    !.tags = {t1, t2}, !.media = {m2}]}

MCTagsOf == (c1 :> {t1}) @@ (c2 :> {t1, t2})

MCHours == {0, 1}

\* m1 sends summaries from two checks on, m2 from one.
MCThreshold == (m1 :> 2) @@ (m2 :> 1)
MCInterval == (m1 :> 1) @@ (m2 :> 0)
====
