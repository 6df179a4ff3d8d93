------------------------------ MODULE MCSettings ------------------------------
EXTENDS PromptSettings
CONSTANTS a, b, c, t1, m1, none
\* b requires a and starts after c if there is one; or c requires b, b a; or
\* a requires b and c, and c wants b.
Edges(pairs) == [e \in Exts |-> {d \in Exts : <<e, d>> \in pairs}]
MCGraphs == {[hard |-> Edges({<<b, a>>}), soft |-> Edges({<<b, c>>})],
             [hard |-> Edges({<<c, b>>, <<b, a>>}), soft |-> Edges({})],
             [hard |-> Edges({<<a, b>>, <<a, c>>}), soft |-> Edges({<<c, b>>})]}
MCOverrides ==
    [tools : {None, {}, {t1}}, servers : {None}, exclude : {{}}, extra : {{}},
     deny : {{}, {t1}}, model : {None}]
      \cup [tools : {None}, servers : {None, {}, {m1}, {a, m1}}, exclude : {{}, {a}},
            extra : {{}, {m1}}, deny : {{}}, model : {None}]
MCKnown == {None, [NoOverrides EXCEPT !.tools = {t1}], [NoOverrides EXCEPT !.servers = {a}]}
=============================================================================
