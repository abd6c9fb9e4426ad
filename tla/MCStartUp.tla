------------------------------ MODULE MCStartUp ------------------------------
(* Small instances of StartUp for TLC. *)
EXTENDS StartUp

Databases_(n) == Line("databases", <<Number(n)>>)
Cache(regime) == Line("cache-regime", <<Text(regime)>>)
Save(words) == Line("save", words)
Comment == Line("#", <<>>)

MCGarbage == {<<>>, <<Number(1)>>, <<Text("get-cache")>>}

MCFiles == {
  NoFile,
  <<>>,
  <<Databases_(2), Line("other", <<Text("yes")>>), Cache("deffer-dump")>>,
  <<Cache("get-cache"), Comment, Cache("everything"), Databases_(2),
    Line("databases", <<Text("many")>>), Line("databases", <<Number(1), Number(1)>>)>>,
  <<Databases_(0), Cache("no-cache"), Cache("only-cache")>>,
  \* Lines without a value, behind a save line or in front.
  <<Save(<<Number(2), Number(1)>>), Line("databases", <<>>), Cache("deffer-dump"), Line("other", <<>>)>>,
  <<Line("cache-regime", <<>>), Databases_(2)>>,
  <<Cache("get-cache"), Line("save", <<>>)>>,
  \* A save line with a word, with too many pairs; first lines without a name.
  <<Databases_(2), Save(<<Number(2), Text("times")>>)>>,
  <<Save(<<Number(2), Number(1), Number(2), Number(1)>>), Databases_(1)>>,
  <<BlankLine, Databases_(1)>>,
  <<SpacesLine, Databases_(1)>>}
=============================================================================
