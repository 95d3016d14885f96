----------------------------- MODULE MCIniFile ------------------------------
(* Sections s, keys k1 and k2, values v and w, written in the usual ways,  *)
(* in lines up to the very size of the buffer, and lines that are misread  *)
(* (README, Deviations).                                                   *)
EXTENDS IniFile

Line(kind, name, value) == [kind |-> kind, name |-> name, value |-> value]
k1 == <<"k", "1">>
k2 == <<"k", "2">>

Usual ==
     <<";", "x">>                        :> Line("comment", <<>>, <<>>)
  @@ <<>>                                :> Line("comment", <<>>, <<>>)
  @@ <<"[", "s", "]">>                   :> Line("section", <<"s">>, <<>>)
  @@ <<" ", "k", "1", "=", "v">>         :> Line("pair", k1, <<"v">>)
  @@ <<"k", "2", "=", "w", " ", ";", "x">> :> Line("pair", k2, <<"w">>)
  @@ <<"k", "2", "=", "[">>              :> Line("open", k2, <<>>)
  @@ <<"v">>                             :> Line("item", <<>>, <<"v">>)
  @@ <<" ", "]">>                        :> Line("close", <<>>, <<>>)
UsualLines == DOMAIN Usual

ASSUME LinesAssumption == Lines = UsualLines => \A l \in Lines : AsUsual(l)

Commented      == <<"k", "1", "=", "v", ";", "x">> :> Line("pair", k1, <<"v">>)
CommentedLines == DOMAIN Commented

Blank      == <<"k", "1", "=", "v", " ">> :> Line("pair", k1, <<"v">>)
BlankLines == DOMAIN Blank

Long ==    <<";", "x", "x", "x", "x">> :> Line("comment", <<>>, <<>>)
        @@ <<"k", "1", "=", "v">>      :> Line("pair", k1, <<"v">>)
LongLines == DOMAIN Long
=============================================================================
