------------------------------- MODULE Forms -------------------------------
(***************************************************************************)
(* The forms of fortrust-dom (form.rs): which controls of a form are       *)
(* submitted and with what, and which make it invalid, while scripts add,  *)
(* switch on and off, and fill in controls.                                *)
(*                                                                         *)
(* Node 1 is the form. A node comes after its parent and its older         *)
(* siblings. A value is what the checks tell apart of it; encodings and    *)
(* messages are left out, and a field is known by its control.             *)
(***************************************************************************)
EXTENDS Integers, SequencesExt, FiniteSetsExt, Retain

CONSTANTS
    FormControls,       \* the elements that may be added, see FormNodes
    FormValues,     \* [len : Nat, blank, fits, email, url, numeric : BOOLEAN,
                    \*  number]
    MaxControl      \* bound: nodes

VARIABLE nodes

NoLimit == -1

Empty == [len |-> 0, blank |-> TRUE, fits |-> FALSE, email |-> FALSE, url |-> FALSE,
          numeric |-> FALSE, number |-> 0]

\* Names, types and limits of an element; on is checked or selected.
FormNode == [tag |-> "form", parent |-> 0, type |-> "", named |-> FALSE, disabled |-> FALSE,
             on |-> FALSE, value |-> Empty, required |-> FALSE, pattern |-> FALSE,
             minlength |-> NoLimit, maxlength |-> NoLimit, min |-> NoLimit, max |-> NoLimit]

Buttons == {"submit", "reset", "button", "image"}

FormNodes ==
    [tag : {"form", "fieldset", "input", "textarea", "select", "optgroup", "option"},
     type : Buttons \cup {"", "text", "email", "url", "number", "range", "checkbox", "radio", "file"},
     parent : Nat, named : BOOLEAN, disabled : BOOLEAN, on : BOOLEAN,
     value : FormValues \cup {Empty}, required : BOOLEAN, pattern : BOOLEAN,
     minlength : Int, maxlength : Int, min : Int, max : Int]

ASSUME FormAssumption == FormControls \subseteq FormNodes

FormInit == nodes = <<FormNode>>

Children(i) == {c \in DOMAIN nodes : nodes[c].parent = i}

InOrder(set) == Retained([c \in DOMAIN nodes |-> c], set)

-----------------------------------------------------------------------------
(* Selection.                                                              *)

Options(i) == {c \in Children(i) : nodes[c].tag = "option"}

\* find_selected_option: the first child that is selected, or is a group with
\* an option that is found in the same way, so that the first option of a group
\* goes before a later one that is selected; else the first option; else none.
SelectedOption ==
    LET found[i \in DOMAIN nodes] ==
            LET hits == {c \in Children(i) :
                            \/ nodes[c].tag = "option" /\ nodes[c].on
                            \/ /\ nodes[c].tag = "optgroup" /\ found[c] # 0
                               /\ nodes[found[c]].value.len > 0}
            IN  CASE hits # {} -> IF nodes[Min(hits)].tag = "option" THEN Min(hits) ELSE found[Min(hits)]
                  [] hits = {} /\ Options(i) # {} -> Min(Options(i))
                  [] hits = {} /\ Options(i) = {} -> 0
    IN  found

ValueOf(i) ==
    IF nodes[i].tag # "select" THEN nodes[i].value
    ELSE IF SelectedOption[i] = 0 THEN Empty ELSE nodes[SelectedOption[i]].value

-----------------------------------------------------------------------------
(* What is submitted.                                                      *)

\* A file has a value once one is chosen.
Successful(n) ==
    /\ n.tag \in {"input", "textarea", "select"} /\ n.named
    /\ n.tag = "input" =>
         CASE n.type \in Buttons                -> FALSE
           [] n.type \in {"checkbox", "radio"}  -> n.on
           [] n.type = "file"                   -> n.value.len > 0
           [] OTHER                             -> TRUE

\* Mutant of Skipped: a disabled control is taken like the others.
SkippedAlone(n) == FALSE

\* A disabled element is passed over with everything in it.
Skipped(n) == n.disabled

\* What a child adds, when inside is what is in it: not the controls of a form in
\* the form.
Adds(c, inside) ==
    IF Skipped(nodes[c]) THEN <<>>
    ELSE (IF Successful(nodes[c]) THEN <<c>> ELSE <<>>)
           \o (IF nodes[c].tag = "form" THEN <<>> ELSE inside)

\* collect_form_controls: the controls of a node in document order.
Collected ==
    LET collect[i \in DOMAIN nodes] ==
            LET kids == InOrder(Children(i))
            IN  FlattenSeq([k \in DOMAIN kids |-> Adds(kids[k], collect[kids[k]])])
    IN  collect[1]

-----------------------------------------------------------------------------
(* What is valid.                                                          *)

\* The errors of one control.
Errors(i) ==
    LET n == nodes[i]  v == ValueOf(i) IN
    {kind \in {"Required", "PatternMismatch", "TooShort", "TooLong", "TypeMismatch",
               "RangeUnderflow", "RangeOverflow"} :
        CASE kind = "Required"        -> n.required /\ v.blank
          [] kind = "PatternMismatch" -> n.pattern /\ v.len > 0 /\ ~ v.fits
          [] kind = "TooShort"        -> v.len > 0 /\ v.len < n.minlength
          [] kind = "TooLong"         -> n.maxlength # NoLimit /\ v.len > n.maxlength
          [] kind = "TypeMismatch"    ->
                /\ n.tag = "input" /\ v.len > 0
                /\ \/ n.type = "email" /\ ~ v.email
                   \/ n.type = "url" /\ ~ v.url
                   \/ n.type \in {"number", "range"} /\ ~ v.numeric
          [] OTHER ->
                /\ n.tag = "input" /\ n.type \in {"number", "range"}
                /\ v.len > 0 /\ v.numeric
                /\ \/ kind = "RangeUnderflow" /\ n.min # NoLimit /\ v.number < n.min
                   \/ kind = "RangeOverflow" /\ n.max # NoLimit /\ v.number > n.max}

\* validate_controls, disabled or not, but for the forms in the form.
Validated ==
    LET validate[i \in DOMAIN nodes] ==
            UNION {(IF nodes[c].tag \in {"input", "textarea", "select"} THEN {c} ELSE {})
                     \cup (IF nodes[c].tag = "form" THEN {} ELSE validate[c]) : c \in Children(i)}
    IN  validate[1]

Valid == \A i \in Validated : Errors(i) = {}

-----------------------------------------------------------------------------
\* What an element may stand in.
Admits(parent, n) ==
    CASE n.tag = "option"   -> parent.tag \in {"select", "optgroup"}
      [] n.tag = "optgroup" -> parent.tag = "select"
      [] OTHER              -> parent.tag \in {"form", "fieldset"}

AddControl(parent, n) ==
    /\ Len(nodes) < MaxControl
    /\ Admits(nodes[parent], n)
    /\ nodes' = Append(nodes, [n EXCEPT !.parent = parent])

\* Scripts set the value, checked or selected, and disabled: the attributes of an
\* element or the text of a textarea. More than one option may be selected.
FillIn(i, v) ==
    /\ nodes[i].tag \in {"input", "textarea", "option"}
    /\ nodes' = [nodes EXCEPT ![i].value = v]

Switch(i) ==
    /\ nodes[i].tag \in {"input", "option"}
    /\ nodes' = [nodes EXCEPT ![i].on = ~ @]

\* The walks do not ask whether the form itself is disabled.
Disable(i) == i # 1 /\ nodes' = [nodes EXCEPT ![i].disabled = ~ @]

FormNext ==
    \E i \in DOMAIN nodes :
        \/ \E n \in FormControls : AddControl(i, n)
        \/ \E v \in FormValues : FillIn(i, v)
        \/ Switch(i) \/ Disable(i)

FormSpec == FormInit /\ [][FormNext]_nodes

-----------------------------------------------------------------------------
InForm(i) ==
    LET up[j \in DOMAIN nodes] ==
            \/ nodes[j].parent = 1
            \/ /\ nodes[j].parent > 1 /\ nodes[nodes[j].parent].tag # "form"
               /\ up[nodes[j].parent]
    IN  i # 1 /\ up[i]

Enabled(i) ==
    LET up[j \in DOMAIN nodes] == ~ nodes[j].disabled /\ (nodes[j].parent = 0 \/ up[nodes[j].parent])
    IN  up[i]

\* What a form submits (collect_from_form, validate_form): every control of the
\* form itself that is on, and nothing else: nothing in a disabled fieldset,
\* nothing of a form in the form, no control twice; and when the form is valid,
\* each of them keeps to its own limits. The two walks skip different nodes.
SubmittedIsRight ==
    /\ ToSet(Collected) = {i \in DOMAIN nodes : Successful(nodes[i]) /\ Enabled(i) /\ InForm(i)}
    /\ IsInjective(Collected)
    /\ Valid => \A i \in ToSet(Collected) : Errors(i) = {}
=============================================================================
