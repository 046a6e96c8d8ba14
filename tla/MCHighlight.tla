----------------------------- MODULE MCHighlight -----------------------------
(***************************************************************************)
(* The scan of Highlight for every grammar of remark.js that uses more than *)
(* begin, end and contains, each compiled as its first use compiles it; or  *)
(* the way of a block through HighlightBlock.  The two share no state, and  *)
(* a behaviour is of one of them.                                           *)
(***************************************************************************)
EXTENDS Highlight, HighlightBlock, HighlightCompile, GrammarsAtoG, GrammarsHtoO, GrammarsPtoZ

\* The languages, by the names they are registered under.
Registered == [
    abnf |-> Abnf, actionscript |-> Actionscript, ada |-> Ada, apache |-> Apache,
     arcade |-> Arcade, asciidoc |-> Asciidoc, aspectj |-> Aspectj, axapta |-> Axapta,
     bash |-> Bash, bnf |-> Bnf, brainfuck |-> Brainfuck, cal |-> Cal,
     capnproto |-> Capnproto, ceylon |-> Ceylon, clojure |-> Clojure,
     clojure_repl |-> ClojureRepl, coffeescript |-> Coffeescript, coq |-> Coq, cos |-> Cos,
     cpp |-> Cpp, crmsh |-> Crmsh, crystal |-> Crystal, cs |-> Cs, csp |-> Csp,
     css |-> Css, dart |-> Dart, delphi |-> Delphi, django |-> Django,
     dockerfile |-> Dockerfile, dsconfig |-> Dsconfig, dts |-> Dts, dust |-> Dust,
     elixir |-> Elixir, erb |-> Erb, erlang |-> Erlang, excel |-> Excel, fix |-> Fix,
     flix |-> Flix, fortran |-> Fortran, fsharp |-> Fsharp, gams |-> Gams, gauss |-> Gauss,
     go |-> Go, haml |-> Haml, handlebars |-> Handlebars, haxe |-> Haxe,
     htmlbars |-> Htmlbars, http |-> Http, hy |-> Hy, ini |-> Ini, irpf90 |-> Irpf90,
     isbl |-> Isbl, java |-> Java, javascript |-> Javascript, jboss_cli |-> JbossCli,
     json |-> Json, julia_repl |-> JuliaRepl, kotlin |-> Kotlin, lasso |-> Lasso,
     ldif |-> Ldif, leaf |-> Leaf, less |-> Less, lisp |-> Lisp, livescript |-> Livescript,
     lua |-> Lua, makefile |-> Makefile, markdown |-> Markdown, matlab |-> Matlab,
     mojolicious |-> Mojolicious, moonscript |-> Moonscript, n1ql |-> N1ql,
     nginx |-> Nginx, nix |-> Nix, objectivec |-> Objectivec, onec |-> OneC, perl |-> Perl,
     pgsql |-> Pgsql, php |-> Php, profile |-> Profile, properties |-> Properties,
     protobuf |-> Protobuf, puppet |-> Puppet, purebasic |-> Purebasic, python |-> Python,
     qml |-> Qml, reasonml |-> Reasonml, roboconf |-> Roboconf, routeros |-> Routeros,
     ruby |-> Ruby, rust |-> Rust, scala |-> Scala, scheme |-> Scheme, scss |-> Scss,
     shell |-> Shell,
     smalltalk |-> Smalltalk, sql |-> Sql, stylus |-> Stylus, swift |-> Swift,
     taggerscript |-> Taggerscript, tcl |-> Tcl, tex |-> Tex, thrift |-> Thrift,
     twig |-> Twig, typescript |-> Typescript, vala |-> Vala, vbnet |-> Vbnet, xl |-> Xl,
     xml |-> Xml, xquery |-> Xquery, yaml |-> Yaml, zephir |-> Zephir]

\* Each language is compiled by itself.  Some modes of hljs are objects of several
\* languages, which the first one compiles: none of them ends with its parent, so all
\* would compile them alike.
Compiled ==
    [l \in DOMAIN Registered |-> Only({compileLanguage(g) : g \in {Registered[l]}})] @@ <<>>

MCGrammar == Compiled

\* A block has an emphasized part, a line break and a link, or an emphasized part and an
\* abbreviation; two spans in the result.
MCOriginals == {<<"em", "br", "a">>, <<"em", "abbr">>}
MCHighlights == <<"keyword", "string">>

ScanOnly ==
    /\ Init
    /\ stage = "none"
    /\ scores = <<>> /\ best = 0 /\ second_best = 0 /\ block = <<>> /\ colored = <<>>
    /\ original = <<>> /\ highlighted = <<>> /\ processed = 0 /\ nodeStack = <<>>
    /\ result = <<>>

BlockOnly ==
    /\ BlockInit
    /\ language = "json" /\ ignore_illegals = FALSE /\ stack = <<Root>>
    /\ index = 0 /\ buffer = 0 /\ emitted = 0 /\ open = 0
    /\ phase = "done" /\ calls = MaxCalls /\ fresh = 0

MCNext == (Next /\ UNCHANGED blockVars) \/ (BlockNext /\ UNCHANGED vars)

MCSpec == (ScanOnly \/ BlockOnly) /\ [][MCNext]_<<vars, blockVars>>
=============================================================================
