------------------------------ MODULE MCUnits ------------------------------
(***************************************************************************)
(* Reports with a remuneration section for UnitText: what may stand before *)
(* the section, how it opens, how its two units are printed, and what      *)
(* stands between and behind them. The outline is the text of the units as *)
(* a reader sees it.                                                       *)
(***************************************************************************)
EXTENDS Integers, Sequences, TLC

MCVocabulary == << <<"remuneration", "report">>, <<"remuneration", "committee">> >>
MCPageNumbers == {"12", "15", "18"}
MCEnders == {"done.", "agreed."}
MCSmall == {"is", "for"}
MCAnchors == {"agreed."}

Heading(size, words) == [type |-> "HEADING_CANDIDATE", size |-> size, words |-> words, breaks |-> {}]
Wrapped(words, breaks) == [type |-> "PARAGRAPH", size |-> 10, words |-> words, breaks |-> breaks]
Text(words) == Wrapped(words, {})

MCContents == << Heading(12, <<"remuneration", "report", "12">>), Heading(12, <<"risk", "15">>), Heading(12, <<"share", "awards", "18">>), Text(<<"notes">>) >>
MCCommittee == << Heading(14, <<"our", "remuneration", "committee">>), Text(<<"members">>) >>
MCOpenings == { << Heading(24, <<"remuneration", "report">>), Text(<<"intro", "done.">>) >>,
                << Heading(24, <<"remuneration">>), Heading(24, <<"report">>), Text(<<"intro", "done.">>) >> }

Policy == <<"pay", "policy">>
Awards == <<"share", "awards">>

MCHeaded ==
  [page |-> <<Heading(14, Policy), Text(<<"fixed", "pay">>), Text(<<"bonus">>)>>,
   text |-> <<"fixed", "pay", "bonus">>, strategy |-> "NEXT_HEADING", sound |-> TRUE]

\* The first unit: its page, its text, its strategy. The last printing is not sound:
\* a sentence before the unit breaks its line right after the heading's words.
MCFirst ==
  { MCHeaded,
    [page |-> <<Heading(14, <<"our", "pay", "policy">>), Text(<<"fixed">>)>>,
     text |-> <<"fixed">>, strategy |-> "NEXT_HEADING", sound |-> TRUE],
    [page |-> <<Wrapped(<<"done.", "pay", "policy", "is", "new">>, {2, 4}), Heading(14, Policy), Text(<<"fixed">>)>>,
     text |-> <<"fixed">>, strategy |-> "NEXT_HEADING", sound |-> TRUE],
    [page |-> <<Text(<<"intro", "done.", "pay", "policy", "Fixed", "pay">>), Text(<<"bonus">>)>>,
     text |-> <<"Fixed", "pay", "bonus">>, strategy |-> "NEXT_HEADING", sound |-> TRUE],
    [page |-> <<Wrapped(<<"pay", "policy", "for", "staff", "Fixed">>, {2, 4}), Text(<<"bonus">>)>>,
     text |-> <<"for", "staff", "Fixed", "bonus">>, strategy |-> "NEXT_HEADING", sound |-> TRUE],
    [page |-> <<Heading(14, Policy), Text(<<"fixed", "agreed.", "other">>), Text(<<"rest">>)>>,
     text |-> <<"fixed", "agreed.">>, strategy |-> "ANCHOR_SENTENCE", sound |-> TRUE],
    [page |-> <<Wrapped(<<"done.", "pay", "policy", "is", "new">>, {3}), Heading(14, Policy), Text(<<"fixed">>)>>,
     text |-> <<"fixed">>, strategy |-> "NEXT_HEADING", sound |-> FALSE] }

\* Between the units: nothing, a picture with two labels, the first unit going on, or
\* a page under the section's own heading.
MCBetween ==
  { [pages |-> <<>>, more |-> <<>>],
    [pages |-> << <<Heading(24, <<"short", "term", "pay">>), Heading(24, <<"long", "term", "pay">>)>> >>, more |-> <<>>],
    [pages |-> << <<Heading(14, <<"pay", "policy", "continued">>), Text(<<"limits">>)>> >>, more |-> <<"limits">>],
    [pages |-> << <<Heading(24, <<"remuneration", "report", "continued">>), Text(<<"limits">>)>> >>, more |-> <<"limits">>] }

MCSecond == { << <<Heading(14, Awards), Text(<<"granted">>)>> >>, <<>> }
MCBehind == { <<>>, << <<Heading(24, <<"risk">>), Heading(14, Awards), Text(<<"elsewhere">>)>> >> }

MCReport(front, opening, first, between, second, behind) ==
  LET text == IF first.strategy = "NEXT_HEADING" THEN first.text \o between.more ELSE first.text
  IN [sound |-> first.sound,
      pages |-> front \o <<opening, first.page>> \o between.pages \o second \o behind,
      outline |-> "policy" :> text @@ (IF second = <<>> THEN <<>> ELSE "awards" :> <<"granted">>),
      units |-> { [key |-> "policy", heading |-> Policy, strategy |-> first.strategy],
                  [key |-> "awards", heading |-> Awards, strategy |-> "NEXT_HEADING"] }]

MCSections ==
  { MCReport(front, opening, first, between, second, behind) :
      front \in {<<>>, <<MCContents>>, <<MCCommittee>>}, opening \in MCOpenings, first \in MCFirst,
      between \in MCBetween, second \in MCSecond, behind \in MCBehind }

\* The same unit under other keys, as after a change of the configuration.
MCRekeyed(report, keys) ==
  [report EXCEPT !.units = { [key |-> k, heading |-> Policy, strategy |-> "NEXT_HEADING"] : k \in keys },
                 !.outline = [k \in keys |-> report.outline["policy"]]]

MCPlain == MCReport(<<>>, << Heading(24, <<"remuneration", "report">>) >>, MCHeaded,
                    CHOOSE b \in MCBetween : b.pages = <<>>, << <<Heading(14, Awards), Text(<<"granted">>)>> >>, <<>>)

MCComparisons ==
  { [earlier |-> report, later |-> MCPlain] : report \in MCSections }
  \cup { [earlier |-> MCRekeyed(MCPlain, a), later |-> MCRekeyed(MCPlain, b)] :
           a \in {{"policy"}, {"policy", "pay"}}, b \in {{"policy"}, {"pay_2"}, {"pay_2", "pay_3"}, {"pay", "pay_2"}} }
  \cup { [earlier |-> [MCPlain EXCEPT !.pages = << <<Text(<<"intro">>)>> >>], later |-> MCPlain] }
=============================================================================
