---------------------------- MODULE MCPluginConfig ----------------------------
(* TLC instance of PluginConfig: buffers of a few characters. *)
EXTENDS PluginConfig

TextsUpTo(n, alphabet) == UNION {[1..k -> alphabet] : k \in 0..n}

\* "t" stands for the word "true", which is no number and no placeholder.
AllChars == {"%", "j", "s", "J", ".", "/", "t", "x", "0", "1", "2", "3", "5", "6"}
One == <<"1">>
Zero0 == <<"0">>
Trues == {One, <<"t">>}
Falses == {Zero0}
Job == <<"1", "2">>
Step == <<"3">>
DirDefault == <<"/", "x">>
IntervalDefault == <<"5">>

GoodDir == <<"/", "%", "j">>
StepDir == <<"%", "s">>
LongDir == <<"/", "%", "J", "/", "x", "%", "s">>  \* is cut within a placeholder

\* All short templates, and longer ones up to one character too many.
Dirs == TextsUpTo(5, {"%", "j", "s", "J", "/"}) \cup TextsUpTo(7, {"%", "J", "/"})
Set(name, text) == [name |-> name, text |-> text]
NoEnv == [n \in {} |-> <<>>]
EnvOf(name, text) == [n \in {name} |-> text]

\* Any dump directory.
DirInputs ==
  {[args |-> <<Set("dump-dir", d)>>, env |-> NoEnv, opts |-> <<>>] : d \in Dirs}

\* Any interval in the environment, over one from plugstack.conf.
IntervalInputs ==
  {[args |-> <<Set(Interval, <<"2", "5">>)>>, env |-> EnvOf(Interval, text), opts |-> <<>>] :
     text \in TextsUpTo(4, {"0", "2", "5", "6", "x"})}

ArgChoices ==
  {Set("enabled", Zero0), Set("enabled", <<"x">>), Set("dump-dir", GoodDir),
   Set("dump-dir", LongDir), Set(Unknown, One)}
EnvChoices ==
  {NoEnv} \cup {EnvOf("dump-dir", d) : d \in {StepDir, LongDir, <<>>}}
          \cup {EnvOf("enabled", b) : b \in {<<"t">>, Zero0, <<"x">>}}
OptChoices ==
  {Set("enabled", One), Set("enabled", <<"x">>), Set("dump-dir", StepDir),
   Set("dump-dir", LongDir)}

\* Every order of sources that are good, bad and too long.
MixedInputs ==
  [args : TextsUpTo(2, ArgChoices), env : EnvChoices, opts : TextsUpTo(2, OptChoices)]

AllInputs == DirInputs \cup IntervalInputs \cup MixedInputs
=============================================================================
