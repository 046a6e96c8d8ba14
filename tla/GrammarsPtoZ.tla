-------------------- MODULE GrammarsPtoZ --------------------
(***************************************************************************)
(* The mode graphs of the highlighter's grammars whose names begin with     *)
(* P to Z: what each language function of remark.js returns, as the tables     *)
(* HighlightModes describes.                                                *)
(***************************************************************************)
EXTENDS HighlightModes

Perl == [
    language |-> Mode({}, <<"VAR", "COMMENT", "COMMENT2", "METHOD", "string", "span", "L19021",
        "function", "text", "L19050">>),
    VAR |-> Variants(<<"text">>),
    COMMENT |-> Mode({"className"}, <<"text", "span">>),
    COMMENT2 |-> Mode({"className", "endsWithParent", "end"}, <<"text", "span">>),
    METHOD |-> Mode({}, <<"VAR", "COMMENT", "COMMENT2", "METHOD", "string", "span", "L19021",
        "function", "text", "L19050">>),
    string |-> Variants(<<"L18969", "L18993", "span">>),
    SUBST |-> Mode({"className"}, <<"VAR", "COMMENT", "COMMENT2", "METHOD", "string", "span",
        "L19021", "function", "text", "L19050">>),
    L19021 |-> Mode({}, <<"COMMENT", "span", "L18993">>),
    L18993 |-> Mode({"className"}, <<"text">>),
    function |-> Mode({"className", "excludeEnd"}, <<"span">>),
    L19050 |-> Mode({"subLanguage"}, <<"span">>),
    L18969 |-> Mode({"className"}, <<"text", "SUBST", "VAR">>)]

Pgsql == [
    language |-> Mode({}, <<"keyword", "text", "L19508", "span", "string", "L19594", "L19607",
        "COMMENT">>),
    keyword |-> Variants(<<"span">>),
    L19508 |-> Mode({"returnEnd"}, <<>>),
    string |-> Mode({"className"}, <<"text">>),
    L19594 |-> Mode({"endSameAsBegin"}, <<"L19598">>),
    L19598 |-> Mode({"endsWithParent", "subLanguage", "noBegin"}, <<>>),
    L19607 |-> Mode({}, <<"text">>),
    COMMENT |-> Mode({"className"}, <<"text", "span">>)]

Php == [
    language |-> Mode({}, <<"COMMENT", "COMMENT2", "string", "span", "text", "function", "class",
        "L19751", "STRING_", "NUMBER">>),
    COMMENT |-> Mode({"className"}, <<"text", "span">>),
    COMMENT2 |-> Mode({"className", "endsWithParent"}, <<"text", "span">>),
    string |-> Mode({"className"}, <<"text", "NUMBER">>),
    NUMBER |-> Variants(<<"span">>),
    function |-> Mode({"className", "excludeEnd"}, <<"span", "params">>),
    params |-> Mode({"className"}, <<"self", "text", "COMMENT", "STRING_", "NUMBER">>),
    STRING_ |-> Variants(<<"COMMENT", "STRING_2">>),
    STRING_2 |-> Mode({"className"}, <<"text">>),
    class |-> Mode({"className", "excludeEnd"}, <<"text", "span">>),
    L19751 |-> Mode({}, <<"span">>)]

Profile == [
    language |-> Mode({}, <<"span", "L20195", "text", "L20204", "APOS_STRING_MODE",
        "QUOTE_STRING_MODE", "string">>),
    L20195 |-> Mode({"excludeEnd"}, <<>>),
    L20204 |-> Mode({}, <<"span">>),
    APOS_STRING_MODE |-> Mode({"className"}, <<"text">>),
    QUOTE_STRING_MODE |-> Mode({"className"}, <<"text", "span">>),
    string |-> Mode({"className", "excludeBegin", "excludeEnd"}, <<>>)]

Properties == [
    language |-> Mode({}, <<"COMMENT", "L20351", "span">>),
    COMMENT |-> Mode({"className"}, <<"text", "span">>),
    L20351 |-> Starts({"returnBegin"}, <<"attr">>, "DELIM_AND_VALUE"),
    attr |-> Mode({"className", "endsParent"}, <<>>),
    DELIM_AND_VALUE |-> Starts({"noBegin"}, <<>>, "string"),
    string |-> Mode({"className", "noBegin"}, <<"text">>)]

Protobuf == [
    language |-> Mode({}, <<"QUOTE_STRING_MODE", "span", "class", "function", "L20423">>),
    QUOTE_STRING_MODE |-> Mode({"className"}, <<"text", "span">>),
    class |-> Mode({"className"}, <<"TITLE_MODE">>),
    TITLE_MODE |-> Starts({"className"}, <<>>, "L20413"),
    L20413 |-> Mode({"excludeEnd", "endsWithParent", "noBegin"}, <<>>),
    function |-> Mode({"className", "excludeEnd"}, <<>>),
    L20423 |-> Mode({"excludeEnd"}, <<>>)]

Puppet == [
    language |-> Mode({}, <<"COMMENT", "span", "STRING_", "L20498", "L20503", "L20511">>),
    COMMENT |-> Mode({"className"}, <<"text", "span">>),
    STRING_ |-> Variants(<<"COMMENT">>),
    L20498 |-> Mode({}, <<"span", "COMMENT">>),
    L20503 |-> Mode({}, <<"section">>),
    section |-> Mode({"className", "endsParent"}, <<>>),
    L20511 |-> Mode({"returnBegin"}, <<"span", "L20519">>),
    L20519 |-> Mode({}, <<"STRING_", "COMMENT", "L20526", "span">>),
    L20526 |-> Mode({"returnBegin"}, <<"span">>)]

Purebasic == [
    language |-> Mode({}, <<"COMMENT", "function", "span">>),
    COMMENT |-> Mode({"className"}, <<"text", "span">>),
    function |-> Mode({"className", "returnBegin", "excludeEnd"}, <<"keyword", "span">>),
    keyword |-> Mode({"className", "excludeEnd"}, <<>>)]

Python == [
    language |-> Mode({}, <<"span", "NUMBER", "STRING_", "STRING_2", "L20735", "text">>),
    NUMBER |-> Variants(<<"span">>),
    STRING_ |-> Variants(<<"STRING_2", "STRING_3", "STRING_4", "STRING_5">>),
    STRING_2 |-> Mode({"className"}, <<"text", "span">>),
    STRING_3 |-> Mode({"className"}, <<"text", "span", "SUBST">>),
    SUBST |-> Mode({"className"}, <<"STRING_", "NUMBER", "span">>),
    STRING_4 |-> Mode({"className"}, <<"text">>),
    STRING_5 |-> Mode({"className"}, <<"text", "SUBST">>),
    L20735 |-> Variants(<<"L20737">>),
    PARAMS |-> Mode({"className"}, <<"self", "span", "NUMBER", "STRING_">>),
    L20745 |-> Mode({"endsWithParent"}, <<>>),
    L20737 |-> Mode({"className"}, <<"span", "PARAMS", "L20745">>)]

Qml == [
    language |-> Mode({}, <<"span", "APOS_STRING_MODE", "QUOTE_STRING_MODE", "number", "L20920",
        "SIGNAL", "function", "text", "ID_ID", "QML_ATTRIBUTE", "QML_OBJECT">>),
    APOS_STRING_MODE |-> Mode({"className"}, <<"text">>),
    QUOTE_STRING_MODE |-> Mode({"className"}, <<"text", "span">>),
    number |-> Variants(<<"span">>),
    L20920 |-> Mode({}, <<"QUOTE_STRING_MODE", "REGEXP_MODE", "L20927">>),
    REGEXP_MODE |-> Mode({"className"}, <<"text", "L3205">>),
    L3205 |-> Mode({}, <<"text">>),
    L20927 |-> Mode({"subLanguage"}, <<>>),
    SIGNAL |-> Starts({"className"}, <<>>, "string"),
    string |-> Mode({"className", "returnEnd", "noBegin"}, <<>>),
    function |-> Mode({"className", "excludeEnd"}, <<"span", "params">>),
    params |-> Mode({"className", "excludeBegin", "excludeEnd"}, <<"QUOTE_STRING_MODE">>),
    ID_ID |-> Starts({"className"}, <<>>, "string2"),
    string2 |-> Mode({"className", "noBegin"}, <<>>),
    QML_ATTRIBUTE |-> Mode({"returnBegin"}, <<"attribute">>),
    attribute |-> Mode({"className", "excludeEnd"}, <<>>),
    QML_OBJECT |-> Mode({"returnBegin"}, <<"span">>)]

Reasonml == [
    language |-> Mode({}, <<"COMMENT", "span", "literal", "CONSTRUCTOR_MODE", "NUMBER_MODE",
        "PATTERN_MATCH_BLOCK_MODE", "FUNCTION_BLOCK_MODE", "MODULE_ACCESS_MODE3",
        "MODULE_ACCESS_MODE">>),
    COMMENT |-> Mode({"className"}, <<"text", "span">>),
    literal |-> Mode({"className"}, <<"span", "NUMBER_MODE">>),
    NUMBER_MODE |-> Variants(<<"span">>),
    CONSTRUCTOR_MODE |-> Mode({"className"}, <<"COMMENT", "span">>),
    PATTERN_MATCH_BLOCK_MODE |-> Mode({"className", "returnBegin"}, <<"CONSTRUCTOR_MODE", "span">>),
    FUNCTION_BLOCK_MODE |-> Variants(<<"FUNCTION_BLOCK_MODE2", "FUNCTION_BLOCK_MODE3", "span">>),
    FUNCTION_BLOCK_MODE2 |-> Mode({"className", "returnBegin"}, <<"NUMBER_MODE">>),
    FUNCTION_BLOCK_MODE3 |-> Mode({"className", "returnBegin"}, <<"params">>),
    params |-> Variants(<<"L21146">>),
    L21146 |-> Mode({"className"}, <<"span", "typing">>),
    typing |-> Mode({"className", "returnBegin"}, <<"module", "MODULE_ACCESS_MODE">>),
    module |-> Mode({"className", "returnBegin"}, <<"span">>),
    MODULE_ACCESS_MODE |-> Variants(<<"MODULE_ACCESS_MODE2", "MODULE_ACCESS_MODE3">>),
    MODULE_ACCESS_MODE2 |-> Mode({"className", "returnBegin"}, <<"COMMENT", "span", "module",
        "FUNCTION_BLOCK_MODE">>),
    MODULE_ACCESS_MODE3 |-> Mode({"className", "returnBegin"}, <<"FUNCTION_BLOCK_MODE", "L21260",
        "COMMENT", "span", "module">>),
    L21260 |-> Mode({"skip"}, <<>>)]

Roboconf == [
    language |-> Mode({}, <<"L21413", "L21424", "COMMENT">>),
    L21413 |-> Mode({}, <<"PROPERTY", "COMMENT">>),
    PROPERTY |-> Starts({"className", "excludeEnd"}, <<>>, "L21391"),
    L21391 |-> Mode({"noBegin"}, <<"span">>),
    COMMENT |-> Mode({"className"}, <<"text", "span">>),
    L21424 |-> Mode({}, <<"self", "PROPERTY", "COMMENT">>)]

Routeros == [
    language |-> Mode({}, <<"L21526", "COMMENT", "QUOTE_STRING", "span", "VAR", "L21545",
        "L21595">>),
    L21526 |-> Variants(<<"text">>),
    COMMENT |-> Mode({"className"}, <<"text", "span">>),
    QUOTE_STRING |-> Mode({"className"}, <<"text", "VAR", "variable">>),
    VAR |-> Variants(<<"span">>),
    variable |-> Mode({"className"}, <<"text">>),
    L21545 |-> Mode({"returnBegin"}, <<"span", "L21554">>),
    L21554 |-> Mode({"endsWithParent"}, <<"QUOTE_STRING", "span", "VAR", "text">>),
    L21595 |-> Mode({"returnBegin"}, <<"span">>)]

Ruby == [
    language |-> Mode({}, <<"COMMENT", "L21831", "meta", "STRING_", "text", "class", "function",
        "span", "symbol", "L21801">>),
    COMMENT |-> Mode({"className"}, <<"span", "text">>),
    L21831 |-> Starts({}, <<>>, "L21833"),
    L21833 |-> Mode({"noBegin"}, <<"STRING_", "text", "class", "function", "span", "symbol",
        "L21801", "COMMENT">>),
    STRING_ |-> Variants(<<"L21811", "STRING_2">>),
    SUBST |-> Mode({"className"}, <<"STRING_", "text", "class", "function", "span", "symbol",
        "L21801", "COMMENT">>),
    class |-> Mode({"className"}, <<"span", "L21757", "COMMENT">>),
    L21757 |-> Mode({}, <<"text">>),
    function |-> Mode({"className"}, <<"span", "PARAMS", "COMMENT">>),
    PARAMS |-> Mode({"className", "endsParent"}, <<"STRING_", "text", "class", "function", "span",
        "symbol", "L21801", "COMMENT">>),
    symbol |-> Mode({"className"}, <<"STRING_", "text">>),
    L21801 |-> Mode({}, <<"text", "regexp", "COMMENT">>),
    regexp |-> Variants(<<"L21811">>),
    L21811 |-> Mode({"className"}, <<"text", "SUBST">>),
    STRING_2 |-> Mode({"className", "returnBegin"}, <<"text", "L21734">>),
    L21734 |-> Mode({"endSameAsBegin"}, <<"text", "SUBST">>),
    meta |-> Starts({"className"}, <<>>, "L21833")]

Rust == [
    language |-> Mode({}, <<"COMMENT", "COMMENT2", "string", "span", "function", "meta", "class",
        "text">>),
    COMMENT |-> Mode({"className"}, <<"text", "span">>),
    COMMENT2 |-> Mode({"className"}, <<"self", "text", "span">>),
    string |-> Variants(<<"span">>),
    function |-> Mode({"className", "excludeEnd"}, <<"span">>),
    meta |-> Mode({"className"}, <<"span">>),
    class |-> Mode({"className"}, <<"UNDERSCORE_TITLE_MODE">>),
    UNDERSCORE_TITLE_MODE |-> Mode({"className", "endsParent"}, <<>>)]

Scala == [
    language |-> Mode({}, <<"COMMENT", "STRING_", "span", "METHOD", "CLASS">>),
    COMMENT |-> Mode({"className"}, <<"text", "span">>),
    STRING_ |-> Variants(<<"STRING_2", "span", "STRING_3", "STRING_4">>),
    STRING_2 |-> Mode({"className"}, <<"text">>),
    STRING_3 |-> Mode({"className"}, <<"text", "SUBST">>),
    SUBST |-> Variants(<<"span">>),
    STRING_4 |-> Mode({"className"}, <<"SUBST">>),
    METHOD |-> Mode({"className", "excludeEnd"}, <<"span">>),
    CLASS |-> Mode({"className", "excludeEnd"}, <<"text", "L22239", "params", "span">>),
    L22239 |-> Mode({"excludeBegin", "excludeEnd"}, <<"span">>),
    params |-> Mode({"className", "excludeBegin", "excludeEnd"}, <<"span">>)]

Scheme == [
    language |-> Mode({}, <<"span", "NUMBER", "QUOTE_STRING_MODE", "QUOTED_LIST", "LIST">>),
    NUMBER |-> Variants(<<"span">>),
    QUOTE_STRING_MODE |-> Mode({"className"}, <<"text", "span">>),
    QUOTED_LIST |-> Variants(<<"QUOTED_LIST2">>),
    L22398 |-> Mode({}, <<"self", "span", "QUOTE_STRING_MODE", "NUMBER", "text">>),
    QUOTED_LIST2 |-> Mode({}, <<"L22398">>),
    LIST |-> Variants(<<"LIST2">>),
    LAMBDA_ |-> Mode({"returnBegin", "endsWithParent"}, <<"span", "L22416">>),
    L22416 |-> Mode({"endsParent"}, <<"text">>),
    BODY |-> Mode({"endsWithParent", "noBegin"}, <<"span", "NUMBER", "QUOTE_STRING_MODE", "text",
        "QUOTED_LIST", "LIST">>),
    LIST2 |-> Mode({}, <<"LAMBDA_", "span", "BODY">>)]

Scss == [
    language |-> Mode({}, <<"COMMENT", "span", "selector_attr", "text", "L22570", "L22583">>),
    COMMENT |-> Mode({"className"}, <<"text", "span">>),
    selector_attr |-> Mode({"className", "nullIllegal"}, <<>>),
    L22570 |-> Mode({}, <<"span", "COMMENT", "APOS_STRING_MODE">>),
    L22583 |-> Mode({}, <<"span", "COMMENT", "APOS_STRING_MODE", "text">>),
    APOS_STRING_MODE |-> Mode({"className"}, <<"text">>)]

Shell == [
    language |-> Mode({}, <<"meta">>),
    meta |-> Starts({"className"}, <<>>, "L22615"),
    L22615 |-> Mode({"subLanguage", "noBegin"}, <<>>)]

Smalltalk == [
    language |-> Mode({}, <<"COMMENT", "APOS_STRING_MODE", "span", "text", "L22716", "L22725">>),
    COMMENT |-> Mode({"className"}, <<"text", "span">>),
    APOS_STRING_MODE |-> Mode({"className"}, <<"text">>),
    L22716 |-> Mode({"returnBegin"}, <<"text">>),
    L22725 |-> Mode({}, <<"APOS_STRING_MODE", "span">>)]

Sql == [
    language |-> Mode({}, <<"L23233", "COMMENT">>),
    L23233 |-> Mode({"endsWithParent", "end"}, <<"string", "span", "COMMENT">>),
    string |-> Mode({"className"}, <<"text">>),
    COMMENT |-> Mode({"className"}, <<"text", "span">>)]

Stylus == [
    language |-> Mode({}, <<"QUOTE_STRING_MODE", "APOS_STRING_MODE", "span", "L23939", "text",
        "function", "attribute">>),
    QUOTE_STRING_MODE |-> Mode({"className"}, <<"text", "span">>),
    APOS_STRING_MODE |-> Mode({"className"}, <<"text">>),
    L23939 |-> Mode({"returnBegin"}, <<"span">>),
    function |-> Mode({"className", "returnBegin"}, <<"span", "params">>),
    params |-> Mode({"className"}, <<"span", "APOS_STRING_MODE", "QUOTE_STRING_MODE">>),
    attribute |-> Starts({"className"}, <<>>, "L24015"),
    L24015 |-> Mode({"noBegin"}, <<"span", "APOS_STRING_MODE", "QUOTE_STRING_MODE">>)]

Swift == [
    language |-> Mode({}, <<"STRING_", "COMMENT", "COMMENT2", "span", "function", "class",
        "L24203">>),
    STRING_ |-> Variants(<<"STRING_2">>),
    SUBST |-> Mode({"className"}, <<"span">>),
    STRING_2 |-> Mode({"className"}, <<"text", "SUBST">>),
    COMMENT |-> Mode({"className"}, <<"text", "span">>),
    COMMENT2 |-> Mode({"className"}, <<"self", "text", "span">>),
    function |-> Mode({"className", "excludeEnd"}, <<"span", "text", "params">>),
    params |-> Mode({"className", "endsParent"}, <<"self", "span", "STRING_", "COMMENT", "text">>),
    class |-> Mode({"className", "excludeEnd"}, <<"span">>),
    L24203 |-> Mode({}, <<"COMMENT", "COMMENT2">>)]

Taggerscript == [
    language |-> Mode({}, <<"COMMENT", "FUNCTION", "span">>),
    COMMENT |-> Mode({"className"}, <<"L24221">>),
    L24221 |-> Mode({}, <<"self", "text">>),
    FUNCTION |-> Mode({"className", "excludeEnd"}, <<>>)]

Tcl == [
    language |-> Mode({}, <<"COMMENT", "L24323", "L24337", "string", "number">>),
    COMMENT |-> Mode({"className"}, <<"text", "span">>),
    L24323 |-> Mode({"excludeEnd"}, <<"title">>),
    title |-> Mode({"className", "excludeEnd", "endsWithParent", "end"}, <<>>),
    L24337 |-> Variants(<<"L24340">>),
    L24340 |-> Mode({"excludeEnd"}, <<>>),
    string |-> Variants(<<"COMMENT">>),
    number |-> Variants(<<"span">>)]

Tex == [
    language |-> Mode({}, <<"COMMAND", "formula", "COMMENT">>),
    COMMAND |-> Mode({"className"}, <<"name">>),
    name |-> Variants(<<"L24380">>),
    L24380 |-> Starts({"className"}, <<>>, "L24383"),
    L24383 |-> Mode({"endsWithParent", "noBegin"}, <<"string", "L24394">>),
    string |-> Variants(<<"span">>),
    L24394 |-> Mode({"endsWithParent"}, <<"span">>),
    formula |-> Variants(<<"L24418">>),
    L24418 |-> Mode({"className"}, <<"COMMAND">>),
    COMMENT |-> Mode({"className"}, <<"text", "span">>)]

Thrift == [
    language |-> Mode({}, <<"QUOTE_STRING_MODE", "span", "class", "L24465">>),
    QUOTE_STRING_MODE |-> Mode({"className"}, <<"text", "span">>),
    class |-> Mode({"className"}, <<"TITLE_MODE">>),
    TITLE_MODE |-> Starts({"className"}, <<>>, "L24461"),
    L24461 |-> Mode({"excludeEnd", "endsWithParent", "noBegin"}, <<>>),
    L24465 |-> Mode({}, <<"self">>)]

Twig == [
    language |-> Mode({"subLanguage"}, <<"COMMENT", "template_tag", "template_variable">>),
    COMMENT |-> Mode({"className"}, <<"text", "span">>),
    template_tag |-> Mode({"className"}, <<"name">>),
    name |-> Starts({"className"}, <<>>, "L24620"),
    L24620 |-> Mode({"endsWithParent", "noBegin"}, <<"FILTER", "FUNCTIONS">>),
    FILTER |-> Mode({}, <<"FUNCTIONS">>),
    FUNCTIONS |-> Mode({}, <<"span">>),
    template_variable |-> Mode({"className"}, <<"self", "FILTER", "FUNCTIONS">>)]

Typescript == [
    language |-> Mode({}, <<"span", "APOS_STRING_MODE", "QUOTE_STRING_MODE", "HTML_TEMPLATE",
        "TEMPLATE_STRING", "NUMBER", "L24769", "function2", "L24819", "text", "L24831", "ARGS">>),
    APOS_STRING_MODE |-> Mode({"className"}, <<"text">>),
    QUOTE_STRING_MODE |-> Mode({"className"}, <<"text", "span">>),
    HTML_TEMPLATE |-> Starts({}, <<>>, "L24713"),
    L24713 |-> Mode({"subLanguage", "noBegin"}, <<"text", "SUBST">>),
    SUBST |-> Mode({"className"}, <<"APOS_STRING_MODE", "QUOTE_STRING_MODE", "HTML_TEMPLATE",
        "TEMPLATE_STRING", "NUMBER", "REGEXP_MODE">>),
    TEMPLATE_STRING |-> Mode({"className"}, <<"text", "SUBST">>),
    NUMBER |-> Variants(<<"span">>),
    REGEXP_MODE |-> Mode({"className"}, <<"text", "L3205">>),
    L3205 |-> Mode({}, <<"text">>),
    L24769 |-> Mode({}, <<"QUOTE_STRING_MODE", "REGEXP_MODE", "function">>),
    function |-> Mode({"className", "returnBegin"}, <<"params">>),
    params |-> Variants(<<"span", "L24790">>),
    L24790 |-> Mode({"className", "excludeBegin", "excludeEnd"}, <<"self", "QUOTE_STRING_MODE">>),
    function2 |-> Mode({"className", "excludeEnd"}, <<"self", "span", "PARAMS">>),
    PARAMS |-> Mode({"className", "excludeBegin", "excludeEnd"}, <<"QUOTE_STRING_MODE", "span",
        "ARGS">>),
    ARGS |-> Mode({}, <<"self", "QUOTE_STRING_MODE", "APOS_STRING_MODE", "span">>),
    L24819 |-> Mode({"excludeEnd"}, <<"self", "PARAMS">>),
    L24831 |-> Mode({"excludeEnd"}, <<>>)]

Vala == [
    language |-> Mode({}, <<"class", "COMMENT", "span", "APOS_STRING_MODE">>),
    class |-> Mode({"className", "excludeEnd"}, <<"span">>),
    COMMENT |-> Mode({"className"}, <<"text", "span">>),
    APOS_STRING_MODE |-> Mode({"className"}, <<"text">>)]

Vbnet == [
    language |-> Mode({}, <<"QUOTE_STRING_MODE", "COMMENT", "span">>),
    QUOTE_STRING_MODE |-> Mode({"className"}, <<"text">>),
    COMMENT |-> Mode({"className", "returnBegin"}, <<"QUOTE_STRING_MODE", "text", "span">>)]

Xl == [
    language |-> Mode({}, <<"COMMENT", "span", "FUNCTION_DEFINITION", "IMPORT">>),
    COMMENT |-> Mode({"className"}, <<"text", "span">>),
    FUNCTION_DEFINITION |-> Mode({"className", "returnBegin"}, <<"TITLE_MODE">>),
    TITLE_MODE |-> Starts({"className"}, <<>>, "L25513"),
    L25513 |-> Mode({"endsWithParent", "noBegin"}, <<>>),
    IMPORT |-> Mode({}, <<"span">>)]

Xml == [
    language |-> Mode({}, <<"meta", "COMMENT", "text", "span", "L25595", "tag", "tag2">>),
    meta |-> Mode({"className"}, <<"text">>),
    COMMENT |-> Mode({"className"}, <<"text", "span">>),
    L25595 |-> Mode({"subLanguage"}, <<"APOS_STRING_MODE">>),
    APOS_STRING_MODE |-> Mode({"skip"}, <<>>),
    tag |-> Starts({"className"}, <<"TAG_INTERNALS">>, "L25619"),
    TAG_INTERNALS |-> Mode({"endsWithParent", "noBegin"}, <<"span", "L25553">>),
    L25553 |-> Mode({}, <<"string">>),
    string |-> Variants(<<"L25561">>),
    L25561 |-> Mode({"className", "endsParent"}, <<>>),
    L25619 |-> Mode({"returnEnd", "subLanguage", "noBegin"}, <<>>),
    tag2 |-> Mode({"className"}, <<"span", "TAG_INTERNALS">>)]

Xquery == [
    language |-> Mode({}, <<"span", "BUILT_IN", "STRING_", "COMMENT", "COMPUTED", "DIRECT">>),
    BUILT_IN |-> Variants(<<"span", "BUILT_IN2">>),
    BUILT_IN2 |-> Mode({"className", "excludeEnd"}, <<>>),
    STRING_ |-> Variants(<<"STRING_2">>),
    STRING_2 |-> Mode({"className"}, <<"text">>),
    COMMENT |-> Mode({"className"}, <<"span">>),
    COMPUTED |-> Mode({"excludeEnd"}, <<>>),
    DIRECT |-> Mode({"subLanguage"}, <<"L25783", "self">>),
    L25783 |-> Mode({"subLanguage"}, <<>>)]

Yaml == [
    language |-> Mode({}, <<"KEY", "span", "string", "L25886", "COMMENT", "text", "STRING_">>),
    KEY |-> Variants(<<"span">>),
    string |-> Mode({"className", "returnEnd"}, <<"text", "KEY">>),
    L25886 |-> Mode({"excludeBegin", "excludeEnd", "subLanguage"}, <<>>),
    COMMENT |-> Mode({"className"}, <<"text", "span">>),
    STRING_ |-> Variants(<<"STRING_2">>),
    STRING_2 |-> Mode({"className"}, <<"text", "KEY">>)]

Zephir == [
    language |-> Mode({}, <<"COMMENT", "COMMENT2", "STRING_", "text", "function", "class",
        "L26018", "STRING_2", "NUMBER">>),
    COMMENT |-> Mode({"className"}, <<"text", "span">>),
    COMMENT2 |-> Mode({"className", "endsWithParent"}, <<"text", "span">>),
    STRING_ |-> Mode({"className"}, <<"text">>),
    function |-> Mode({"className", "excludeEnd"}, <<"span", "params">>),
    params |-> Mode({"className"}, <<"self", "COMMENT", "STRING_2", "NUMBER">>),
    STRING_2 |-> Variants(<<"STRING_", "COMMENT">>),
    NUMBER |-> Variants(<<"span">>),
    class |-> Mode({"className", "excludeEnd"}, <<"text", "span">>),
    L26018 |-> Mode({}, <<"span">>)]

============================================================
