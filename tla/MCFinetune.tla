----------------------------- MODULE MCFinetune -----------------------------
(* Small tables: every kind of sentence, one phrase or two for each slot,   *)
(* words held out in most of them, among them a phrase of two words one of  *)
(* which is an ordinary direction.  Speeds on both sides of zero and of the *)
(* tolerance, durations on both sides of the limits, a right answer of      *)
(* every kind.  Confidences that tie and that do not.                       *)
EXTENDS Finetune, TLC

Tab(train, rich, holdout) == [train |-> train, rich |-> rich, holdout |-> holdout]
Only(phrase) == Tab({phrase}, {phrase}, {})

MCPhrases ==
  [SPEED   |-> Tab({<<>>}, {<<"hard">>}, {<<"softly">>}),
   FWD     |-> Tab({<<"ahead">>}, {<<"straight on">>}, {}),
   BWD     |-> Only(<<"back">>),
   LEFT    |-> Only(<<"left">>),
   RIGHT   |-> Only(<<"right">>),
   LEFT_V  |-> Tab({<<"left turn">>}, {<<"left", "wheel">>}, {<<"left", "bend">>}),
   RIGHT_V |-> Only(<<"right turn">>),
   STOP    |-> Tab({<<"stop">>}, {<<"halt">>}, {<<"pull up">>}),
   TAIL    |-> Only(<<>>)]

MCPace == (<<>> :> 30) @@ (<<"hard">> :> 50) @@ (<<"softly">> :> 15)
MCSeconds == "for 2 s" :> 2
MCHoldoutWord == {"softly", "bend", "pull up"}
MCOfftopic == [train |-> {"hello"}, test |-> {"good night"}]
Sizes == [train |-> 1, valid |-> 1, test |-> 2]

\* With and without the wider words; a refusal for validation, or three, of one.
MCArgs == [rich : BOOLEAN, reject : {1, 48}, size : {Sizes}]

MCSpeeds == {-30, 0, 1, 30}
MCTimes == {-100, 0, 300, 1000, 1100}
Command(l, a, d) == [json |-> TRUE, reject |-> FALSE, linear |-> Number(l),
                     angular |-> Number(a), duration |-> Number(d)]
MCRefusal == [json |-> TRUE, reject |-> TRUE]
MCGold == {MCRefusal, Command(0, 0, 0), Command(30, 0, 300), Command(-30, 0, 1000),
           Command(0, -30, 300), Command(30, 30, 300)}

MCConf == 0..2
\* With three right answers, 1 and 5 percent of them are nobody; these are not.
MCQuantile == {0, 5, 50, 70}
=============================================================================
