----------------------------- MODULE MCCommandLine -----------------------------
(***************************************************************************)
(* A label field of four characters; "A", underscore, "A" is as generic    *)
(* as DVD_VIDEO; four are enough for it, for padding, and for words of     *)
(* one and two letters.  One run on a disc of any label; one run with any  *)
(* set of options; and three runs at a time, with the same name, with two, *)
(* and with an empty one and one too long.                                 *)
(***************************************************************************)
EXTENDS CommandLine, TLC

CONSTANTS r1, r2, r3

C(asked, wrong, name) == [help |-> FALSE, asked |-> asked, wrong |-> wrong, name |-> name]
Idle == [command |-> [C({}, {}, NoName) EXCEPT !.help = TRUE], label |-> <<"A", "A", Space, Space>>]
With(command) == [Idle EXCEPT !.command = command]
Alone(x) == r1 :> x @@ r2 :> Idle @@ r3 :> Idle

AnyLabel == {Alone([command |-> C({"M"}, {}, NoName), label |-> l]) : l \in Label}

AnyOptions ==
  {Alone(With(C(asked, wrong, <<"a">>))) :
     asked \in SUBSET {"I", "M", "F", "T", "t", "s", "e"},
     wrong \in {{}, {"option"}, {"strategy"}, {"aspect"}, {"number"}}}

Mirror(name) == With(C({"M"}, {}, name))
Together == {r1 :> Mirror(n[1]) @@ r2 :> Mirror(n[2]) @@ r3 :> Mirror(n[3]) :
               n \in {<<<<"a">>, <<"a">>, <<"a">>>>, <<<<"a">>, <<"a">>, NoName>>,
                      <<<<"a">>, <<>>, <<"a", "a", "a", "a", "A">>>>}}

AllCalls == AnyLabel \cup AnyOptions \cup Together

GenericLabel == <<"A", Underscore, "A">>

Name == <<"a">>
Target == <<>>
AllTrees ==
  {[dirs |-> d, files |-> f] :
     d \in {{}, {Target}, {Target, <<Name>>, <<Name, "VIDEO_TS">>}}, f \in {{}}}
  \cup {[dirs |-> {}, files |-> {Target}],
        [dirs |-> {Target}, files |-> {<<Name>>}],
        [dirs |-> {Target, <<Name>>}, files |-> {<<Name, "VIDEO_TS">>}]}
=============================================================================
