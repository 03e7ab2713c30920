----------------------------- MODULE MCLayouts -----------------------------
(***************************************************************************)
(* Instances of the layouts for TLC.                                       *)
(***************************************************************************)
EXTENDS LayoutsRefinement

MCLeaves  == {0, 3}
MCOffsets == {<<>>, <<0>>, <<0, 1, 3>>, <<0, 0, 2>>, <<0, 2, 1, 3>>, <<1, 3>>}
MCRanges  == {<< <<>>, <<>> >>, << <<2, 0>>, <<3, 2>> >>, << <<1, 0>>, <<1, 2>> >>, << <<0>>, <<4>> >>,
              << <<2>>, <<1>> >>, << <<0, 0>>, <<1>> >>}
MCSizes   == {<<0, 2>>, <<1, 2>>, <<3, 1>>, <<1, 3>>}
MCIndexes == {<<>>, <<1, 0>>, <<2, -1, 2>>, <<1, 0, 1>>, <<3>>}
MCPresents == {<<>>, <<FALSE, TRUE>>, <<TRUE, FALSE, TRUE>>}
MCNames   == {<<"x">>, <<"x", "y">>, <<"x", "x">>}
MCTags    == {<< <<0, 1, 0>>, <<1, 2, 0>> >>, << <<1, 0>>, <<0, 0>> >>, << <<2>>, <<0>> >>,
              << <<0>>, <<3>> >>, << <<0, 1>>, <<0>> >>}
MCCounts  == {<<1, 0, 2>>, <<1, 1>>}
MCRowItems == {SliceOf({}, {}, -1), SliceOf({1}, {}, 1), SliceOf({-1}, {-4}, -2), SliceOf({}, {}, 0),
               IntegersOf(<<-1, 0, 0>>), IntegersOf(<<1>>), IntegersOf(<<3>>), IntegersOf(<<-3, 0>>),
               BooleansOf(<<TRUE, FALSE, TRUE>>), BooleansOf(<<FALSE, TRUE>>)}
MCColumnItems == {SliceOf({}, {}, -1), SliceOf({}, {1}, 1), SliceOf({}, {}, 0),
                  IntegersOf(<<-1>>), IntegersOf(<<0, 1>>)}
MCMasks == {[kind |-> "flat", values |-> <<FALSE, TRUE>>],
            [kind |-> "flat", values |-> <<TRUE, FALSE, TRUE>>],
            [kind |-> "ragged", values |-> << <<TRUE>>, <<FALSE, TRUE>> >>],
            [kind |-> "other"]}
MCProjections == {<<>>, <<"y", "x">>, <<"x", "x">>, <<"x", "z">>}

\* The state that calls leave; the last call itself is history.
Held == <<layout, wraps, selections>>
=============================================================================
