-------------------- MODULE GrammarsHtoO --------------------
(***************************************************************************)
(* The mode graphs of the highlighter's grammars whose names begin with     *)
(* H to O: what each language function of remark.js returns, as the tables     *)
(* HighlightModes describes.                                                *)
(***************************************************************************)
EXTENDS HighlightModes

Haml == [
    language |-> Mode({}, <<"span", "COMMENT", "L10735", "tag", "text">>),
    COMMENT |-> Mode({"className"}, <<"text", "span">>),
    L10735 |-> Starts({}, <<>>, "L10737"),
    L10737 |-> Mode({"subLanguage", "noBegin"}, <<>>),
    tag |-> Mode({"className"}, <<"span", "L10758", "L10782">>),
    L10758 |-> Mode({}, <<"L10762">>),
    L10762 |-> Mode({"returnBegin", "endsWithParent", "end"}, <<"span", "APOS_STRING_MODE",
        "COMMENT", "text">>),
    APOS_STRING_MODE |-> Mode({"className"}, <<"text">>),
    L10782 |-> Mode({"excludeEnd"}, <<"L10762">>)]

Handlebars == [
    language |-> Mode({"subLanguage"}, <<"COMMENT", "template_tag", "span">>),
    COMMENT |-> Mode({"className"}, <<"text", "span">>),
    template_tag |-> Mode({"className"}, <<"name">>),
    name |-> Starts({"className"}, <<>>, "L10847"),
    L10847 |-> Mode({"endsWithParent", "noBegin"}, <<"COMMENT">>)]

Haxe == [
    language |-> Mode({}, <<"QUOTE_STRING_MODE", "span", "type", "class", "class2", "class3",
        "function">>),
    QUOTE_STRING_MODE |-> Mode({"className"}, <<"text", "span">>),
    type |-> Mode({"className", "excludeBegin", "excludeEnd"}, <<>>),
    class |-> Mode({"className"}, <<"span">>),
    class2 |-> Mode({"className"}, <<"type", "span">>),
    class3 |-> Mode({"className", "excludeEnd"}, <<"class", "span">>),
    function |-> Mode({"className", "excludeEnd"}, <<"span">>)]

Htmlbars == [
    language |-> Mode({"subLanguage"}, <<"COMMENT", "template_tag", "template_variable">>),
    COMMENT |-> Mode({"className"}, <<"text", "span">>),
    template_tag |-> Mode({"className"}, <<"name">>),
    name |-> Starts({"className"}, <<>>, "TAG_INNARDS"),
    TAG_INNARDS |-> Mode({"endsWithParent", "noBegin"}, <<"COMMENT", "ATTR_ASSIGNMENT", "span">>),
    ATTR_ASSIGNMENT |-> Mode({"returnBegin"}, <<"span">>),
    template_variable |-> Mode({"className"}, <<"COMMENT">>)]

Http == [
    language |-> Mode({}, <<"L11252", "L11256", "attribute", "L11279">>),
    L11252 |-> Mode({}, <<"span">>),
    L11256 |-> Mode({"returnBegin"}, <<"string", "text", "span">>),
    string |-> Mode({"className", "excludeBegin", "excludeEnd"}, <<>>),
    attribute |-> Starts({"className", "excludeEnd"}, <<>>, "L11277"),
    L11277 |-> Mode({"noBegin"}, <<>>),
    L11279 |-> Starts({}, <<>>, "L11281"),
    L11281 |-> Mode({"endsWithParent", "subLanguage", "noBegin"}, <<>>)]

Hy == [
    language |-> Mode({}, <<"span", "LIST", "COMMENT", "COLLECTION">>),
    LIST |-> Mode({}, <<"COMMENT", "NAME", "BODY">>),
    COMMENT |-> Mode({"className"}, <<"text", "span">>),
    NAME |-> Starts({"className"}, <<>>, "BODY"),
    BODY |-> Mode({"endsWithParent", "noBegin"}, <<"LIST", "COMMENT", "span", "COLLECTION",
        "text">>),
    COLLECTION |-> Mode({}, <<"LIST", "COMMENT", "span", "COLLECTION", "text">>)]

Ini == [
    language |-> Mode({}, <<"COMMENT", "span", "L11491">>),
    COMMENT |-> Mode({"className"}, <<"text", "span">>),
    L11491 |-> Mode({"returnBegin"}, <<"span", "L11499">>),
    L11499 |-> Mode({"endsWithParent"}, <<"COMMENT", "span", "variable", "STRING_">>),
    variable |-> Variants(<<"span">>),
    STRING_ |-> Variants(<<"STRING_2">>),
    STRING_2 |-> Mode({"className"}, <<"text">>)]

Irpf90 == [
    language |-> Mode({}, <<"APOS_STRING_MODE", "QUOTE_STRING_MODE", "function", "number">>),
    APOS_STRING_MODE |-> Mode({"className"}, <<"text">>),
    QUOTE_STRING_MODE |-> Mode({"className"}, <<"text", "span">>),
    function |-> Mode({"className"}, <<"span">>),
    number |-> Mode({"className", "hollow"}, <<>>)]

Isbl == [
    language |-> Mode({}, <<"FUNCTIONS", "TYPES", "text", "VARIABLES_", "STRINGS", "span",
        "COMMENTS">>),
    FUNCTIONS |-> Mode({"className", "returnBegin"}, <<"TITLE_MODE", "text", "VARIABLES_",
        "STRINGS", "span", "COMMENTS">>),
    TITLE_MODE |-> Mode({"className", "returnBegin", "excludeEnd"}, <<>>),
    VARIABLES_ |-> Mode({"className"}, <<"TYPES", "text">>),
    TYPES |-> Mode({"className", "excludeEnd"}, <<>>),
    STRINGS |-> Variants(<<"span">>),
    COMMENTS |-> Variants(<<"COMMENTS2">>),
    COMMENTS2 |-> Mode({"className"}, <<"text", "span">>)]

Java == [
    language |-> Mode({}, <<"COMMENT", "APOS_STRING_MODE", "class", "text", "function", "span">>),
    COMMENT |-> Mode({"className"}, <<"text", "span">>),
    APOS_STRING_MODE |-> Mode({"className"}, <<"text">>),
    class |-> Mode({"className", "excludeEnd"}, <<"text", "span">>),
    function |-> Mode({"className", "returnBegin", "excludeEnd"}, <<"L14875", "params", "COMMENT">>),
    L14875 |-> Mode({"returnBegin"}, <<"span">>),
    params |-> Mode({"className"}, <<"APOS_STRING_MODE", "COMMENT", "span">>)]

Javascript == [
    language |-> Mode({}, <<"span", "APOS_STRING_MODE", "QUOTE_STRING_MODE", "HTML_TEMPLATE",
        "TEMPLATE_STRING", "NUMBER", "L15010", "L15020", "function2", "text", "class", "L15102">>),
    APOS_STRING_MODE |-> Mode({"className"}, <<"text">>),
    QUOTE_STRING_MODE |-> Mode({"className"}, <<"text", "span">>),
    HTML_TEMPLATE |-> Starts({}, <<>>, "L14947"),
    L14947 |-> Mode({"subLanguage", "noBegin"}, <<"text", "SUBST">>),
    SUBST |-> Mode({"className"}, <<"APOS_STRING_MODE", "QUOTE_STRING_MODE", "HTML_TEMPLATE",
        "TEMPLATE_STRING", "NUMBER", "REGEXP_MODE">>),
    TEMPLATE_STRING |-> Mode({"className"}, <<"text", "SUBST">>),
    NUMBER |-> Variants(<<"span">>),
    REGEXP_MODE |-> Mode({"className"}, <<"text", "L3205">>),
    L3205 |-> Mode({}, <<"text">>),
    L15010 |-> Mode({}, <<"L15013">>),
    L15013 |-> Mode({"returnBegin"}, <<"span">>),
    L15020 |-> Mode({}, <<"QUOTE_STRING_MODE", "REGEXP_MODE", "function", "L15051", "L15057">>),
    function |-> Mode({"className", "returnBegin"}, <<"params">>),
    params |-> Variants(<<"span", "L15041">>),
    L15041 |-> Mode({"className", "excludeBegin", "excludeEnd"}, <<"APOS_STRING_MODE",
        "QUOTE_STRING_MODE", "HTML_TEMPLATE", "TEMPLATE_STRING", "NUMBER", "REGEXP_MODE">>),
    L15051 |-> Mode({"skip"}, <<>>),
    L15057 |-> Mode({"subLanguage"}, <<"L15051", "L15062">>),
    L15062 |-> Mode({"skip"}, <<"L15051", "self">>),
    function2 |-> Mode({"className", "excludeEnd"}, <<"span", "L15041">>),
    class |-> Mode({"className", "excludeEnd"}, <<"text", "span">>),
    L15102 |-> Mode({"excludeEnd"}, <<>>)]

JbossCli == [
    language |-> Mode({}, <<"COMMENT", "span", "PARAMSBLOCK">>),
    COMMENT |-> Mode({"className"}, <<"text", "span">>),
    PARAMSBLOCK |-> Mode({"className"}, <<"PARAM">>),
    PARAM |-> Mode({"returnBegin"}, <<"span">>)]

Json == [
    language |-> Mode({}, <<"QUOTE_STRING_MODE", "span", "OBJECT", "ARRAY">>),
    QUOTE_STRING_MODE |-> Mode({"className"}, <<"text", "span">>),
    OBJECT |-> Mode({}, <<"attr", "VALUE_CONTAINER">>),
    attr |-> Mode({"className"}, <<"text">>),
    VALUE_CONTAINER |-> Mode({"excludeEnd", "endsWithParent", "end"}, <<"QUOTE_STRING_MODE",
        "span", "OBJECT", "ARRAY">>),
    ARRAY |-> Mode({}, <<"VALUE_CONTAINER2">>),
    VALUE_CONTAINER2 |-> Mode({"excludeEnd", "endsWithParent", "end", "noBegin"},
        <<"QUOTE_STRING_MODE", "span", "OBJECT", "ARRAY">>)]

JuliaRepl == [
    language |-> Mode({}, <<"meta">>),
    meta |-> Starts({"className"}, <<>>, "L15234"),
    L15234 |-> Mode({"subLanguage", "noBegin"}, <<>>)]

Kotlin == [
    language |-> Mode({}, <<"COMMENT", "COMMENT2", "KEYWORDS_WITH_LABEL", "span", "ANNOTATION",
        "function", "class", "STRING_">>),
    COMMENT |-> Mode({"className"}, <<"span", "text">>),
    COMMENT2 |-> Mode({"className"}, <<"COMMENT", "text", "span">>),
    KEYWORDS_WITH_LABEL |-> Starts({"className"}, <<>>, "L15441"),
    L15441 |-> Mode({"noBegin"}, <<"span">>),
    ANNOTATION |-> Mode({"className"}, <<"L15491">>),
    L15491 |-> Mode({}, <<"STRING_">>),
    STRING_ |-> Variants(<<"STRING_2", "APOS_STRING_MODE", "STRING_3">>),
    STRING_2 |-> Mode({"className"}, <<"span", "SUBST">>),
    SUBST |-> Mode({"className"}, <<"APOS_STRING_MODE", "span">>),
    APOS_STRING_MODE |-> Mode({"className"}, <<"text">>),
    STRING_3 |-> Mode({"className"}, <<"text", "span", "SUBST">>),
    function |-> Mode({"className", "returnBegin", "excludeEnd"}, <<"L15570", "span", "params",
        "COMMENT2">>),
    L15570 |-> Mode({"returnBegin"}, <<"span">>),
    params |-> Mode({"className", "endsParent"}, <<"L15587", "COMMENT", "COMMENT2", "span",
        "ANNOTATION", "STRING_">>),
    L15587 |-> Mode({"endsWithParent", "end"}, <<"KOTLIN_PAREN_TYPE", "COMMENT", "COMMENT2">>),
    KOTLIN_PAREN_TYPE |-> Variants(<<"span", "KOTLIN_PAREN_TYPE2">>),
    KOTLIN_PAREN_TYPE2 |-> Mode({}, <<"KOTLIN_PAREN_TYPE">>),
    class |-> Mode({"className", "excludeEnd"}, <<"text", "span", "type", "type2", "ANNOTATION">>),
    type |-> Mode({"className", "excludeBegin", "excludeEnd"}, <<>>),
    type2 |-> Mode({"className", "returnEnd", "excludeBegin"}, <<>>)]

Lasso == [
    language |-> Mode({}, <<"LASSO_NOPROCESS", "span", "meta", "COMMENT", "APOS_STRING_MODE",
        "L15709", "params", "L15737", "class">>),
    LASSO_NOPROCESS |-> Starts({"className"}, <<>>, "L15761"),
    L15761 |-> Mode({"returnEnd", "noBegin"}, <<"COMMENT">>),
    COMMENT |-> Mode({"className"}, <<"text", "span">>),
    meta |-> Starts({"className"}, <<>>, "L15773"),
    L15773 |-> Mode({"noBegin"}, <<"LASSO_NOPROCESS", "span", "COMMENT", "APOS_STRING_MODE",
        "L15709", "params", "L15737", "class">>),
    APOS_STRING_MODE |-> Mode({"className"}, <<"text">>),
    L15709 |-> Variants(<<"text">>),
    params |-> Variants(<<"span">>),
    L15737 |-> Mode({}, <<"span">>),
    class |-> Mode({"className", "returnEnd"}, <<"span">>)]

Ldif == [
    language |-> Mode({}, <<"attribute", "span", "COMMENT">>),
    attribute |-> Starts({"className", "excludeEnd"}, <<>>, "L15817"),
    L15817 |-> Mode({"noBegin"}, <<>>),
    COMMENT |-> Mode({"className"}, <<"text", "span">>)]

Leaf == [
    language |-> Mode({}, <<"function">>),
    function |-> Mode({"className", "returnBegin", "excludeEnd"}, <<"span", "params">>),
    params |-> Mode({"className", "endsParent"}, <<"span">>)]

Less == [
    language |-> Mode({}, <<"COMMENT", "AT_RULE_MODE", "VAR_RULE_MODE", "RULE_MODE",
        "SELECTOR_MODE">>),
    COMMENT |-> Mode({"className"}, <<"text", "span">>),
    AT_RULE_MODE |-> Starts({"className"}, <<>>, "L15961"),
    L15961 |-> Mode({"returnEnd", "noBegin"}, <<"COMMENT", "span", "L15913", "PARENS_MODE",
        "attribute">>),
    L15913 |-> Starts({}, <<>>, "string"),
    string |-> Mode({"className", "excludeEnd", "noBegin"}, <<>>),
    PARENS_MODE |-> Mode({}, <<"COMMENT", "span", "L15913", "PARENS_MODE", "attribute">>),
    attribute |-> Mode({"className", "returnBegin", "excludeEnd"}, <<>>),
    VAR_RULE_MODE |-> Variants(<<"VAR_RULE_MODE2">>),
    VAR_RULE_MODE2 |-> Starts({"className"}, <<>>, "L15975"),
    L15975 |-> Mode({"returnEnd", "noBegin"}, <<"COMMENT", "span", "L15913", "PARENS_MODE",
        "attribute", "L15931">>),
    L15931 |-> Mode({}, <<"COMMENT", "AT_RULE_MODE", "VAR_RULE_MODE", "RULE_MODE",
        "SELECTOR_MODE">>),
    RULE_MODE |-> Mode({"returnBegin"}, <<"attribute2">>),
    attribute2 |-> Starts({"className", "excludeEnd"}, <<>>, "L15949"),
    L15949 |-> Mode({"endsWithParent", "noBegin"}, <<"COMMENT", "span", "L15913", "PARENS_MODE",
        "attribute">>),
    SELECTOR_MODE |-> Variants(<<"SELECTOR_MODE2">>),
    MIXIN_GUARD_MODE |-> Mode({"endsWithParent"}, <<"text", "COMMENT", "span", "L15913",
        "PARENS_MODE", "attribute">>),
    L16003 |-> Mode({}, <<"COMMENT", "span", "L15913", "PARENS_MODE", "attribute", "L15931">>),
    SELECTOR_MODE2 |-> Mode({"returnBegin", "returnEnd"}, <<"COMMENT", "MIXIN_GUARD_MODE", "span",
        "L16003", "text">>)]

Lisp == [
    language |-> Mode({}, <<"NUMBER", "span", "QUOTE_STRING_MODE", "QUOTED", "QUOTED_ATOM", "LIST",
        "text">>),
    NUMBER |-> Variants(<<"span">>),
    QUOTE_STRING_MODE |-> Mode({"className"}, <<"text", "span">>),
    QUOTED |-> Variants(<<"QUOTED2">>),
    QUOTED_LIST |-> Mode({}, <<"self", "span", "QUOTE_STRING_MODE", "NUMBER", "text">>),
    QUOTED2 |-> Mode({}, <<"NUMBER", "QUOTE_STRING_MODE", "text", "span", "QUOTED_LIST">>),
    QUOTED_ATOM |-> Variants(<<"text">>),
    LIST |-> Mode({}, <<"NUMBER", "BODY">>),
    BODY |-> Mode({"endsWithParent", "noBegin"}, <<"QUOTED", "QUOTED_ATOM", "LIST", "span",
        "NUMBER", "QUOTE_STRING_MODE", "text">>)]

Livescript == [
    language |-> Mode({}, <<"span", "number", "string", "regexp", "text", "L16390", "COMMENT",
        "function", "class", "L16450">>),
    number |-> Starts({"className"}, <<>>, "L16346"),
    L16346 |-> Mode({"noBegin"}, <<>>),
    string |-> Variants(<<"L16351", "L16359", "L16367">>),
    L16351 |-> Mode({"className"}, <<"text">>),
    L16359 |-> Mode({"className"}, <<"text", "SUBST", "span">>),
    SUBST |-> Mode({"className"}, <<"span", "number", "string", "regexp", "text", "L16390">>),
    regexp |-> Variants(<<"L16376", "span">>),
    L16376 |-> Mode({"className"}, <<"SUBST", "COMMENT">>),
    COMMENT |-> Mode({"className"}, <<"text", "span">>),
    L16390 |-> Mode({"excludeBegin", "excludeEnd", "subLanguage"}, <<>>),
    L16367 |-> Mode({"className", "excludeEnd"}, <<>>),
    function |-> Variants(<<"L16424">>),
    PARAMS |-> Mode({"className", "returnBegin"}, <<"L16404">>),
    L16404 |-> Mode({}, <<"self", "span", "number", "string", "regexp", "text", "L16390">>),
    L16424 |-> Mode({"className", "returnBegin"}, <<"span", "PARAMS">>),
    class |-> Mode({"className"}, <<"L16441", "span">>),
    L16441 |-> Mode({"endsWithParent"}, <<"span">>),
    L16450 |-> Mode({"returnBegin", "returnEnd"}, <<>>)]

Lua == [
    language |-> Mode({}, <<"COMMENT", "COMMENT2", "function", "span", "APOS_STRING_MODE",
        "string">>),
    COMMENT |-> Mode({"className"}, <<"text", "span">>),
    COMMENT2 |-> Mode({"className"}, <<"LONG_BRACKETS", "text", "span">>),
    LONG_BRACKETS |-> Mode({}, <<"self">>),
    function |-> Mode({"className"}, <<"span", "params", "COMMENT", "COMMENT2">>),
    params |-> Mode({"className", "endsWithParent"}, <<"COMMENT", "COMMENT2">>),
    APOS_STRING_MODE |-> Mode({"className"}, <<"text">>),
    string |-> Mode({"className"}, <<"LONG_BRACKETS">>)]

Makefile == [
    language |-> Mode({}, <<"COMMENT", "VARIABLE_", "QUOTE_STRING", "FUNC", "VAR_ASSIG", "span">>),
    COMMENT |-> Mode({"className"}, <<"text", "span">>),
    VARIABLE_ |-> Variants(<<"VARIABLE_2", "span">>),
    VARIABLE_2 |-> Mode({"className"}, <<"text">>),
    QUOTE_STRING |-> Mode({"className"}, <<"text", "VARIABLE_">>),
    FUNC |-> Mode({"className"}, <<"VARIABLE_">>),
    VAR_ASSIG |-> Mode({"returnBegin"}, <<"L16764">>),
    L16764 |-> Mode({"excludeEnd"}, <<>>)]

Markdown == [
    language |-> Mode({}, <<"section", "L16821", "span", "text", "L16872", "L16896">>),
    section |-> Variants(<<"span">>),
    L16821 |-> Mode({"subLanguage"}, <<>>),
    L16872 |-> Mode({"returnBegin"}, <<"string", "link">>),
    string |-> Mode({"className", "returnEnd", "excludeBegin"}, <<>>),
    link |-> Mode({"className", "excludeBegin", "excludeEnd"}, <<>>),
    L16896 |-> Mode({"returnBegin"}, <<"link", "link2">>),
    link2 |-> Mode({"className", "excludeBegin"}, <<>>)]

Matlab == [
    language |-> Mode({}, <<"function", "built_in", "text", "string", "L17052", "string2",
        "COMMENT">>),
    function |-> Mode({"className"}, <<"span", "params">>),
    params |-> Variants(<<"span">>),
    built_in |-> Starts({"className"}, <<>>, "TRANSPOSE"),
    TRANSPOSE |-> Mode({"noBegin"}, <<"text">>),
    string |-> Mode({"className"}, <<"text">>),
    L17052 |-> Starts({}, <<>>, "TRANSPOSE"),
    string2 |-> Starts({"className"}, <<"text">>, "TRANSPOSE"),
    COMMENT |-> Mode({"className"}, <<"text", "span">>)]

Mojolicious == [
    language |-> Mode({"subLanguage"}, <<"span", "L17933", "L17938">>),
    L17933 |-> Mode({"subLanguage"}, <<>>),
    L17938 |-> Mode({"excludeBegin", "excludeEnd", "subLanguage"}, <<>>)]

Moonscript == [
    language |-> Mode({}, <<"C_NUMBER_MODE", "string", "span", "text", "COMMENT", "function",
        "L18110", "class", "name">>),
    C_NUMBER_MODE |-> Starts({"className"}, <<>>, "L18057"),
    L18057 |-> Mode({"noBegin"}, <<>>),
    string |-> Variants(<<"L18061", "L18065">>),
    L18061 |-> Mode({"className"}, <<"text">>),
    L18065 |-> Mode({"className"}, <<"text", "SUBST">>),
    SUBST |-> Mode({"className"}, <<"C_NUMBER_MODE", "string", "span", "text">>),
    COMMENT |-> Mode({"className"}, <<"text", "span">>),
    function |-> Mode({"className", "returnBegin"}, <<"span", "PARAMS">>),
    PARAMS |-> Mode({"className", "returnBegin"}, <<"L18091">>),
    L18091 |-> Mode({}, <<"self", "C_NUMBER_MODE", "string", "span", "text">>),
    L18110 |-> Mode({}, <<"function2">>),
    function2 |-> Mode({"className", "returnBegin"}, <<"PARAMS">>),
    class |-> Mode({"className"}, <<"L18128", "span">>),
    L18128 |-> Mode({"endsWithParent"}, <<"span">>),
    name |-> Mode({"className", "returnBegin", "returnEnd"}, <<>>)]

N1ql == [
    language |-> Mode({}, <<"L18157", "COMMENT">>),
    L18157 |-> Mode({"endsWithParent", "end"}, <<"string", "span", "COMMENT">>),
    string |-> Mode({"className"}, <<"text">>),
    COMMENT |-> Mode({"className"}, <<"text", "span">>)]

Nginx == [
    language |-> Mode({}, <<"COMMENT", "L18294", "L18305">>),
    COMMENT |-> Mode({"className"}, <<"text", "span">>),
    L18294 |-> Mode({"returnBegin"}, <<"span">>),
    L18305 |-> Mode({"returnBegin"}, <<"attribute">>),
    attribute |-> Starts({"className"}, <<>>, "DEFAULT"),
    DEFAULT |-> Mode({"endsWithParent", "noBegin"}, <<"COMMENT", "string", "L18258", "regexp",
        "span", "VAR">>),
    string |-> Variants(<<"L18253">>),
    VAR |-> Variants(<<"span">>),
    L18253 |-> Mode({"className"}, <<"text", "VAR">>),
    L18258 |-> Mode({"excludeEnd", "endsWithParent", "end"}, <<"VAR">>),
    regexp |-> Variants(<<"L18266", "L18253">>),
    L18266 |-> Mode({"className", "returnEnd"}, <<"text", "VAR">>)]

Nix == [
    language |-> Mode({}, <<"span", "COMMENT", "STRING_", "ATTRS">>),
    COMMENT |-> Mode({"className"}, <<"text", "span">>),
    STRING_ |-> Variants(<<"STRING_2">>),
    ANTIQUOTE |-> Mode({"className"}, <<"span", "COMMENT", "STRING_", "ATTRS">>),
    ATTRS |-> Mode({"returnBegin"}, <<"span">>),
    STRING_2 |-> Mode({"className"}, <<"ANTIQUOTE">>)]

Objectivec == [
    language |-> Mode({}, <<"span", "COMMENT", "string", "meta", "class", "text">>),
    COMMENT |-> Mode({"className"}, <<"text", "span">>),
    string |-> Variants(<<"L18602", "span">>),
    L18602 |-> Mode({"className"}, <<"text">>),
    meta |-> Mode({"className"}, <<"meta_string">>),
    meta_string |-> Variants(<<"span">>),
    class |-> Mode({"className", "excludeEnd"}, <<"span">>)]

OneC == [
    language |-> Mode({}, <<"META", "FUNCTION", "COMMENT", "SYMBOL", "span", "STRINGS", "DATE">>),
    META |-> Mode({"className"}, <<"COMMENT">>),
    COMMENT |-> Mode({"className"}, <<"text", "span">>),
    FUNCTION |-> Variants(<<"FUNCTION2">>),
    L3896 |-> Mode({"endsParent"}, <<"params", "COMMENT">>),
    params |-> Mode({"className", "excludeEnd", "endsWithParent", "end"}, <<"span", "STRINGS",
        "DATE">>),
    STRINGS |-> Mode({"className"}, <<"text">>),
    DATE |-> Mode({"excludeBegin", "excludeEnd"}, <<"span">>),
    FUNCTION2 |-> Mode({"className"}, <<"L3896", "span">>),
    SYMBOL |-> Mode({"className", "excludeEnd"}, <<>>)]

============================================================
