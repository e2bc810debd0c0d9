----------------------------- MODULE MCRouting -----------------------------
(* Every list of one to three levels over the lawful forms: a narrow level *)
(* first, a wide one among the others; two alphas.  Three alike fill a     *)
(* launch over its cap.                                                    *)
EXTENDS RouteBundle

Entmax15 == <<"entmax", 15>>
Entmax20 == <<"entmax", 20>>
Forms == {<<"independent", Softmax, Softmax>>, <<"independent", Softmax, Entmax15>>,
          <<"independent", Entmax15, Softmax>>, <<"tied", Softmax, Softmax>>,
          <<"tied", Entmax15, Entmax15>>, <<"union", Entmax15, Entmax15>>,
          <<"union", Entmax20, Entmax20>>}
LevelOf(f, w) == [form |-> f[1], read |-> f[2], write |-> f[3], width |-> w]
Few == {<<"independent", Softmax, Entmax15>>, <<"tied", Softmax, Softmax>>,
        <<"union", Entmax15, Entmax15>>}
MCRoutings ==
  {<<LevelOf(f, 3)>> : f \in Forms}
  \cup {<<LevelOf(f, 4), LevelOf(g, 4)>> : f \in Forms, g \in Few}
  \cup {<<LevelOf(f, 2), LevelOf(g, 3)>> : f \in Few, g \in Forms}
  \cup {<<LevelOf(f, 2), LevelOf(f, 2), LevelOf(g, 2)>> : f \in Few, g \in Few}
  \cup {<<LevelOf(f[1], 2), LevelOf(f[2], 2), LevelOf(g, 3)>> :
           f \in {f \in Few \X Few : f[1] # f[2]}, g \in Few}

DrawOf(tokens, turn, wide, fades, sign, arrive, masked) ==
  [tokens |-> tokens, turn |-> turn, wide |-> wide, fades |-> fades, sign |-> sign,
   arrive |-> arrive, masked |-> masked]
MCDraws ==
  {DrawOf(8, 1, FALSE, FALSE, TRUE,  "bf16",    FALSE), DrawOf(8, 1, TRUE,  FALSE, TRUE,  "bf16",  TRUE),
   DrawOf(8, 0, TRUE,  TRUE,  FALSE, "apart",   FALSE), DrawOf(6, 1, FALSE, FALSE, FALSE, "apart", TRUE),
   DrawOf(8, 1, TRUE,  FALSE, FALSE, "swapped", TRUE),  DrawOf(6, 1, FALSE, TRUE,  TRUE,  "swapped", FALSE),
   DrawOf(8, 1, FALSE, TRUE,  TRUE,  "fp32",    TRUE)}

CallOf(op, planes, pool, paged, exact, order, read, write) ==
  [op |-> op, planes |-> planes, pool |-> pool, paged |-> paged, exact |-> exact,
   order |-> order, sparse |-> [read |-> read, write |-> write]]
MCCalls ==
  {CallOf("prefill", "none",    FALSE, FALSE, FALSE, "first",    {},     {}),
   CallOf("prefill", "advance", TRUE,  TRUE,  TRUE,  "first",    {2},    {1}),
   CallOf("prefill", "read",    TRUE,  TRUE,  TRUE,  "identity", {2},    {2}),
   CallOf("carry",   "fresh",   TRUE,  TRUE,  TRUE,  "first",    {1},    {2}),
   CallOf("carry",   "advance", FALSE, FALSE, TRUE,  "first",    {},     {1, 2}),
   CallOf("carry",   "read",    FALSE, FALSE, FALSE, "identity", {1, 2}, {}),
   CallOf("carry",   "two",     FALSE, FALSE, TRUE,  "first",    {},     {}),
   CallOf("carry",   "advance", TRUE,  FALSE, FALSE, "first",    {},     {}),
   CallOf("intra",   "none",    FALSE, FALSE, FALSE, "first",    {1, 2}, {1, 2})}
SourceOf(scope, heads, fits, rounds) ==
  [scope |-> scope, heads |-> heads, fits |-> fits, rounds |-> rounds]
MCSources ==
  {SourceOf("none", 0, FALSE, FALSE), SourceOf("constant", 3, TRUE, FALSE),
   SourceOf("global", 3, TRUE, FALSE), SourceOf("state", 3, TRUE, FALSE),
   SourceOf("state", 2, TRUE, FALSE), SourceOf("constant", 3, FALSE, FALSE),
   SourceOf("state", 3, TRUE, TRUE)}
ForeignOf(tokens, opaque, carries, laid) ==
  [tokens |-> tokens, opaque |-> opaque, carries |-> carries, laid |-> laid]
MCForeigners ==
  {ForeignOf(1, {1}, TRUE, "right"), ForeignOf(1, {2}, TRUE, "right"), ForeignOf(1, {}, FALSE, "right"),
   ForeignOf(2, {1, 2}, FALSE, "right"), ForeignOf(2, {1}, TRUE, "swapped"), ForeignOf(2, {}, FALSE, "column")}
MCIntraWidth == [depth \in {2} |-> 4]
=============================================================================
