------------------------------ MODULE Cascade -------------------------------
(***************************************************************************)
(* The cascade of fortrust-style (lib.rs): style sheets as the parser      *)
(* leaves them, the rules that match an element, their order, custom       *)
(* properties, and the computed style of every element of a document.      *)
(*                                                                         *)
(* A rule has one selector and one declaration. Of the properties there is *)
(* one that is inherited (color), one that is not (margin), and custom     *)
(* ones; of the values, those a color and those a length takes, and        *)
(* references to custom properties.                                        *)
(***************************************************************************)
EXTENDS Integers, FiniteSets, SequencesExt, Retain

CONSTANTS
    Elements,       \* of the document, parents first:
                    \* [tag, class, attr, parent]
    Selectors,      \* that are written: sequences of
                    \* [tag, class, attr, pseudo, combinator]
    WrittenTexts,          \* that values are written as
    Declarations,   \* that are written: [property, value]
    UaRules,        \* the sheet of the browser: [selector, declaration]
    Widths,         \* of viewports
    MediaQueries,        \* of media rules: [min, negated]
    MaxRule         \* bound: rules and inline styles

VARIABLES
    sheets,
    sheet,          \* the sheet being parsed
    inline,         \* the style attribute of an element
    width           \* of the media context

styleVars == <<sheets, sheet, inline, width>>

Custom == {"--a", "--b"}
ColorNames == {"red", "blue"}
\* A value is a text, or a reference to a custom property with a fallback,
\* which is a text.
Text(s) == [ref |-> "", text |-> s]
Var(name, fallback) == [ref |-> name, text |-> fallback]
IsRef(v) == v.ref # ""
NoFallback == "none"
NoDeclaration == [property |-> "", value |-> Text("")]

Parts == [tag : STRING, class : STRING, attr : STRING, pseudo : STRING, combinator : STRING]

WrittenValues == [ref : Custom \cup {""}, text : WrittenTexts]

ParsedDeclarations == [property : Custom \cup {"color", "margin"}, value : WrittenValues]

\* parse_property_value: what a property takes.
Accepts(property, text) ==
    CASE property \in Custom -> TRUE
      [] property = "color"  -> text \in ColorNames
      [] OTHER               -> text \notin ColorNames \cup {""}

\* parse_declarations: a reference is kept to be resolved later.
Declared(d) == IsRef(d.value) \/ Accepts(d.property, d.value.text)

ASSUME StyleAssumption ==
    /\ Elements \in Seq([tag : STRING, class : STRING, attr : STRING, parent : Nat])
    /\ \A e \in DOMAIN Elements : Elements[e].parent \in 0 .. e - 1
    /\ Selectors \subseteq Seq(Parts) /\ Declarations \subseteq ParsedDeclarations
    /\ UaRules \in Seq([selector : Seq(Parts), declaration : ParsedDeclarations])
    /\ \A i \in DOMAIN UaRules : Declared(UaRules[i].declaration)

-----------------------------------------------------------------------------
(* Selectors.                                                              *)

\* SimpleSelector::parse: what stands before an attribute is lost.
Parsed(part) == IF part.attr = "" THEN part ELSE [part EXCEPT !.tag = "", !.class = ""]

Specificity(selector) ==
    LET Of(part) == (IF part.tag = "" THEN 0 ELSE 1)
                      + 256 * Cardinality({f \in {"class", "attr", "pseudo"} : part[f] # ""})
        sum[k \in 0 .. Len(selector)] == IF k = 0 THEN 0 ELSE sum[k - 1] + Of(Parsed(selector[k]))
    IN  sum[Len(selector)]

\* A child is never found among the children of its parent, so the first or last
\* child is nobody, and every child is the first for nth-child.
PseudoMatches(pseudo, e) ==
    CASE pseudo \in {"first-child", "last-child", "before"} -> FALSE
      [] pseudo = "nth-child(even)" -> FALSE
      [] OTHER -> pseudo = "nth-child(odd)" => Elements[e].parent # 0

SimpleMatches(part, e) ==
    LET p == Parsed(part)
    IN  /\ p.tag \in {"", Elements[e].tag}
        /\ p.class \in {"", Elements[e].class}
        /\ p.attr \in {"", Elements[e].attr}
        /\ PseudoMatches(p.pseudo, e)

\* Selector::matches, from the right: the nearest ancestor that a part matches,
\* or the parent if the part itself was written after a ">".
Matches(selector, e) ==
    LET found[k \in 1 .. Len(selector)] ==      \* the element of part k, or 0
            IF k = Len(selector) THEN IF SimpleMatches(selector[k], e) THEN e ELSE 0
            ELSE IF found[k + 1] = 0 THEN 0
            ELSE LET up[a \in 0 .. Len(Elements)] ==
                        IF a = 0 \/ SimpleMatches(selector[k], a) THEN a
                        ELSE IF selector[k].combinator = ">" THEN 0
                        ELSE up[Elements[a].parent]
                 IN  up[Elements[found[k + 1]].parent]
    IN  found[1] # 0

-----------------------------------------------------------------------------
(* Sheets.                                                                 *)

\* rules: [selector, declaration, order]; media: [query, rules].
Rule(selector, declaration, order) ==
    [selector |-> selector, declaration |-> declaration, order |-> order]

NoSheet == [rules |-> <<>>, media |-> <<>>]

UaSheet == [rules |-> [i \in DOMAIN UaRules |->
                        Rule(UaRules[i].selector, UaRules[i].declaration, i - 1)],
            media |-> <<>>]

StyleInit ==
    /\ sheets = <<UaSheet>> /\ sheet = NoSheet
    /\ inline = [e \in DOMAIN Elements |-> NoDeclaration] /\ width \in Widths

\* MediaContext::evaluate, of a screen query for a width.
Evaluate(query) == (width >= query.min) # query.negated

\* The rules of a sheet and of its media rules that match, in the order in which
\* compute_style finds them.
Matching(s, e) ==
    LET InSheet(r, media) == [rule |-> r, specificity |-> Specificity(r.selector),
                              sheet |-> s, media |-> media]
        Of(rules, media) ==
            LET hit == Retained(rules, {r \in ToSet(rules) : Matches(r.selector, e)})
            IN  [i \in DOMAIN hit |-> InSheet(hit[i], media)]
        all == sheets[s].media
        queried == Retained(all, {m \in ToSet(all) : Evaluate(m.query)})
    IN  Of(sheets[s].rules, FALSE)
          \o FlattenSeq([i \in DOMAIN queried |-> Of(queried[i].rules, TRUE)])

\* Mutant of Before: the order goes before the specificity.
BeforeByOrder(a, b) ==
    \/ a.rule.order < b.rule.order
    \/ a.rule.order = b.rule.order /\ a.specificity < b.specificity

Before(a, b) ==
    \/ a.specificity < b.specificity
    \/ a.specificity = b.specificity /\ a.rule.order < b.rule.order

\* What matches, by specificity and order; what is equal stays as it was found.
\* The order is a rule's place in its own sheet.
Matched(e) ==
    LET all == FlattenSeq([s \in DOMAIN sheets |-> Matching(s, e)])
        Earlier(i) == {j \in DOMAIN all :
                        Before(all[j], all[i]) \/ (~ Before(all[i], all[j]) /\ j < i)}
    IN  [k \in DOMAIN all |-> all[CHOOSE i \in DOMAIN all : Cardinality(Earlier(i)) = k - 1]]

-----------------------------------------------------------------------------
(* Computed styles: [color, margin, custom].                               *)

Initial == [color |-> "black", margin |-> "0", custom |-> [n \in {} |-> Text("")]]

\* inherit_from.
Inherited(parent) == [Initial EXCEPT !.color = parent.color, !.custom = parent.custom]

\* resolve_var_references: what the custom property holds is resolved again.
Resolved(value, custom) ==
    LET Looked(v) == IF ~ IsRef(v) THEN v
                     ELSE IF v.ref \in DOMAIN custom THEN custom[v.ref]
                     ELSE IF v.text = NoFallback THEN Text("") ELSE Text(v.text)
        after[k \in 0 .. Cardinality(Custom) + 1] == IF k = 0 THEN value ELSE Looked(after[k - 1])
    IN  after[Cardinality(Custom) + 1]

Overridden(style, d) ==
    [style EXCEPT !.custom = [n \in DOMAIN @ \cup {d.property} |->
                                IF n = d.property THEN Resolved(d.value, @) ELSE @[n]]]

CollectCustom(style, d) == IF d.property \in Custom THEN Overridden(style, d) ELSE style

\* apply_property: what the property does not take changes nothing.
ApplyProperty(style, property, v) ==
    IF ~ Accepts(property, v) THEN style
    ELSE IF property = "color" THEN [style EXCEPT !.color = v] ELSE [style EXCEPT !.margin = v]

\* apply_declarations.
Apply(style, d) ==
    IF d.property \in Custom THEN Overridden(style, d)
    ELSE ApplyProperty(style, d.property, Resolved(d.value, style.custom).text)

\* compute_style: the custom properties of the rules, then everything, then the
\* same for the style attribute.
Passed(style, decls) ==
    LET collected[k \in 0 .. Len(decls)] ==
            IF k = 0 THEN style ELSE CollectCustom(collected[k - 1], decls[k])
        applied[k \in 0 .. Len(decls)] ==
            IF k = 0 THEN collected[Len(decls)] ELSE Apply(applied[k - 1], decls[k])
    IN  applied[Len(decls)]

DeclarationsOf(matched) == [i \in DOMAIN matched |-> matched[i].rule.declaration]

Computed(e, parent) ==
    LET own == IF inline[e] = NoDeclaration THEN <<>> ELSE <<inline[e]>>
    IN  Passed(Passed(parent, DeclarationsOf(Matched(e))), own)

\* The style of every element.
ComputedStyles ==
    LET of[e \in DOMAIN Elements] ==
            Computed(e, IF Elements[e].parent = 0 THEN Initial ELSE Inherited(of[Elements[e].parent]))
    IN  of

-----------------------------------------------------------------------------
SizeOf(s) == Len(s.rules) + Len(FlattenSeq([i \in DOMAIN s.media |-> s.media[i].rules]))

Written ==
    FoldLeft(LAMBDA sum, s : sum + SizeOf(s), SizeOf(sheet), Tail(sheets))
      + Cardinality({e \in DOMAIN inline : inline[e] # NoDeclaration})

\* A rule of the sheet; one whose declaration does not parse is left out.
ParseRule(selector, d) ==
    /\ Written < MaxRule /\ Declared(d)
    /\ sheet' = [sheet EXCEPT !.rules = Append(@, Rule(selector, d, Len(sheet.rules)))]
    /\ UNCHANGED <<sheets, inline, width>>

\* The rules within a media rule count on from the rules before it, which the
\* rules after it do as well.
ParseMedia(query, selector, d) ==
    /\ Written < MaxRule /\ Declared(d)
    /\ sheet' = [sheet EXCEPT !.media =
                    Append(@, [query |-> query,
                               rules |-> <<Rule(selector, d, Len(sheet.rules))>>])]
    /\ UNCHANGED <<sheets, inline, width>>

AddStylesheet ==
    /\ sheet # NoSheet
    /\ sheets' = Append(sheets, sheet) /\ sheet' = NoSheet
    /\ UNCHANGED <<inline, width>>

SetInline(e, d) ==
    /\ Written < MaxRule /\ Declared(d)
    /\ inline' = [inline EXCEPT ![e] = d]
    /\ UNCHANGED <<sheets, sheet, width>>

SetMediaContext(w) == width # w /\ width' = w /\ UNCHANGED <<sheets, sheet, inline>>

StyleNext ==
    \/ AddStylesheet
    \/ \E w \in Widths : SetMediaContext(w)
    \/ \E d \in Declarations :
        \/ \E e \in DOMAIN Elements : SetInline(e, d)
        \/ \E s \in Selectors :
            \/ ParseRule(s, d)
            \/ \E q \in MediaQueries : ParseMedia(q, s, d)

StyleSpec == StyleInit /\ [][StyleNext]_styleVars

-----------------------------------------------------------------------------
\* Rule a must not win over rule b.
Loses(a, b) ==
    \/ a.specificity < b.specificity
    \/ /\ a.specificity = b.specificity
       /\ a.sheet = b.sheet /\ ~ a.media /\ ~ b.media
       /\ a.rule.order < b.rule.order

\* The colour of an element that matched rules give it, or its style attribute or
\* its parent.
ColorIsOf(e, styles, matched) ==
    LET hits  == {i \in DOMAIN matched : matched[i].rule.declaration.property = "color"}
        color == styles[e].color
    IN  IF inline[e].property = "color"
        THEN IsRef(inline[e].value) \/ color = inline[e].value.text
        ELSE IF hits = {}
        THEN Elements[e].parent # 0 => color = styles[Elements[e].parent].color
        ELSE \/ \E i \in hits : IsRef(matched[i].rule.declaration.value)
             \/ \E i \in hits : /\ color = matched[i].rule.declaration.value.text
                               /\ \A j \in hits : ~ Loses(matched[i], matched[j])

\* The colour of every element comes from where the cascade says
\* (compute_style): from the style attribute; else from a rule that matches, than
\* which no matching rule is more specific and, in the same sheet, no rule is
\* equally specific and later, except after a media rule; else from the parent.
\* And no custom property is kept as a reference, which is what ends
\* resolve_var_references.
ColorCascades ==
    sheet = NoSheet /\ Written > 0 =>
    \A styles \in {ComputedStyles}, e \in DOMAIN Elements :
        /\ ColorIsOf(e, styles, Matched(e))
        /\ \A n \in DOMAIN styles[e].custom : ~ IsRef(styles[e].custom[n])
=============================================================================
