------------------------------- MODULE FormInput -------------------------------
(***************************************************************************)
(* The form controls of the page shown (gui/browser_ui.c): the live state  *)
(* the window keeps of each control, the keyboard focus, and what a submit *)
(* gathers.  Every event the window dispatches to a page with scripts      *)
(* brings back a new view, and applying it frees the document and the      *)
(* controls' state and seeds them again from the markup.                   *)
(*                                                                         *)
(* A control is known by its node; a text is a sequence of key presses     *)
(* (textfield.c); the page's handlers do nothing, set a value, remove a    *)
(* control, navigate, or the worker fails.                                 *)
(***************************************************************************)
EXTENDS Naturals, Sequences, FiniteSets, SequencesExt

CONSTANTS Texts,      \* the editable controls, a sequence in document order
          Boxes,      \* the checkboxes, after them
          Touched,    \* the controls the page's handlers change
          TextCap,    \* TF_CAP - 1, the characters a text field holds
          MaxActs     \* bound: events of the user and of the page

VARIABLES
    js,      \* js_mode # JSP_OFF
    win,     \* [shown, markup, inputs, focus, gen]: the document and its controls
    want,    \* history: what the user last made of each control, or the page
    sent,    \* history: the last submit, [values, want] or NotSent
    ub,      \* history: freed memory or memory before the array was read
    led,     \* history: the loads the last press's mousedown began
    begun,   \* history: the loads the last gesture began after it
    stray,   \* history: the page was pressed elsewhere than on a control
    press,   \* history: the text control the last gesture pressed, or "none"
    acts

vars == <<js, win, want, sent, ub, led, begun, stray, press, acts>>

Order == Texts \o Boxes
Controls == ToSet(Order)
Editable(c) == c \in ToSet(Texts)
NotSent == [is |-> "none"]

\* What a submit begins, and what a page's handler can do.
Effects == {[is |-> "none"], [is |-> "nav"], [is |-> "fail"]}
           \cup [is : {"set", "remove"}, of : Touched]

(*----------------------------- the controls ------------------------------*)

\* w->inputs: the interactive controls of the document, in its order.
Fields(w) == SelectSeq(Order, LAMBDA c : c \in w.shown)

\* rebuild_inputs: each control as its markup declares it, none focused.
Rebuilt(w) == [w EXCEPT !.inputs = [c \in w.shown |-> w.markup[c]], !.focus = 0]

Seeded(markup, shown, gen) ==
    Rebuilt([shown |-> shown, markup |-> markup, inputs |-> <<>>, focus |-> 0, gen |-> gen])

\* The handler's effect on the page, and what the new view brings.
Handled(w, e) ==
    CASE e.is = "set" /\ e.of \in w.shown ->
            [w EXCEPT !.markup[e.of] = [text |-> <<"page">>, checked |-> FALSE]]
      [] e.is = "remove" -> [w EXCEPT !.shown = @ \ {e.of}]
      [] OTHER -> w

\* apply_click_result: a navigation leaves the document, any other result
\* replaces it.
ApplyClickResult(w, e) ==
    IF e.is = "nav" THEN [w EXCEPT !.gen = @ + 1] ELSE Rebuilt(Handled(w, e))

\* tf_insert and tf_backspace at the end of the field.
TfInsert(t) == IF Len(t) < TextCap THEN Append(t, "key") ELSE t
TfBackspace(t) == IF t = <<>> THEN t ELSE Front(t)

\* dispatch_js_event: the focus is dropped first, and is given back only with
\* a value.  The value is read in the array the rebuild freed.
DispatchJsEvent(w, node, valued, e) ==
    LET bare == [w EXCEPT !.focus = 0]
        next == ApplyClickResult(bare, e)
    IN IF ~js THEN [w |-> w, freed |-> FALSE]
       ELSE IF e.is = "fail" THEN [w |-> bare, freed |-> FALSE]
       ELSE IF e.is = "nav" \/ ~valued \/ w.focus = 0 \/ node \notin next.shown
            THEN [w |-> next, freed |-> FALSE]
            ELSE [w |-> [next EXCEPT !.focus = SelectInSeq(Fields(next), LAMBDA c : c = node)],
                  freed |-> TRUE]

(*-------------------------------- submit ---------------------------------*)

\* (the values the markup declares)
GatherMarkup(w) == [c \in {d \in w.shown : Editable(d) \/ w.markup[d].checked} |-> w.markup[c]]

\* The successful controls, with their live state.
Gather(w) == [c \in {d \in w.shown : Editable(d) \/ w.inputs[d].checked} |-> w.inputs[c]]

\* submit_form: the values are gathered, then the page's submit handler may
\* prevent it, the request may not be built or be blocked (target not https,
\* too large), or a load begins.
SubmitForm(w, wanted) ==
    \/ /\ win' = w
       /\ UNCHANGED sent
    \/ /\ win' = [w EXCEPT !.gen = @ + 1]
       /\ sent' = [is |-> "sent", values |-> Gather(w), shown |-> w.shown, want |-> wanted]

(*-------------------------------- actions --------------------------------*)

\* What the user sees a page's handler do to a control is what he wants of it.
Follows(wanted, e) ==
    IF e.is = "set" THEN [wanted EXCEPT ![e.of] = [text |-> <<"page">>, checked |-> FALSE]]
    ELSE wanted

Effect == IF js THEN Effects ELSE {[is |-> "none"]}
BlurEffect(w) == IF w.focus = 0 THEN {[is |-> "none"]} ELSE Effect
Focused(w) == Fields(w)[w.focus]
Step == acts < MaxActs /\ acts' = acts + 1 /\ ~ub /\ UNCHANGED js
Act == Step /\ press' = "none"

\* The loads a gesture began before and after its window was w.
CountedFrom(w) == led' = w.gen - win.gen /\ begun' = win'.gen - w.gen
Counted == CountedFrom(win)

\* handle_key_press on a focused control: a character, or a backspace; the
\* page hears of the new value, text.
Edit(text) ==
    /\ Act
    /\ win.focus # 0
    /\ \E e \in Effect :
         LET typed == [win EXCEPT !.inputs[Focused(win)].text = text]
             d == DispatchJsEvent(typed, Focused(win), TRUE, e)
         IN /\ win' = d.w
            /\ ub' = d.freed
            /\ want' = Follows([want EXCEPT ![Focused(win)].text = text], e)
    /\ Counted
    /\ UNCHANGED <<sent, stray>>

Type == Edit(TfInsert(win.inputs[Focused(win)].text))
Backspace == Edit(TfBackspace(win.inputs[Focused(win)].text))

\* Escape: the page hears of the blur, and the control loses the keyboard.
Escape ==
    /\ Act
    /\ win.focus # 0
    /\ \E e \in Effect :
         /\ win' = [DispatchJsEvent(win, Focused(win), FALSE, e).w EXCEPT !.focus = 0]
         /\ want' = Follows(want, e)
    /\ Counted
    /\ UNCHANGED <<sent, ub, stray>>

\* Enter: the change event, then a submit of the form of the control that has
\* the focus then: with none, the entry before the array is read.
Enter ==
    /\ Act
    /\ win.focus # 0
    /\ \E e \in Effect :
         LET d == DispatchJsEvent(win, Focused(win), TRUE, e)
         IN /\ want' = Follows(want, e)
            /\ ub' = (d.freed \/ d.w.focus = 0)
            /\ IF ub' THEN win' = d.w /\ UNCHANGED sent
               ELSE SubmitForm([d.w EXCEPT !.focus = 0], want')
    /\ Counted
    /\ UNCHANGED stray

\* ptr_button: before anything else the node under the pointer, if any, hears
\* of the mousedown, and its answer is applied.
Pressed(e) == IF ~js \/ e.is = "fail" THEN win ELSE ApplyClickResult(win, e)

\* Then, in the content, the control focused hears of the blur, and the control
\* under the pointer, found before it, is used after it.
Blurred(w, e) ==
    LET bare == [w EXCEPT !.focus = 0]
    IN IF w.focus = 0 THEN [w |-> bare, stale |-> FALSE]
       ELSE [w |-> DispatchJsEvent(bare, Focused(w), FALSE, e).w,
             stale |-> js /\ e.is \notin {"nav", "fail"}]

ClickText(c) ==
    /\ Step
    /\ \E m, f \in Effect : \E e \in BlurEffect(Pressed(m)) :
         LET w == Pressed(m)
             i == SelectInSeq(Fields(w), LAMBDA d : d = c)
             blur == IF w.focus # 0 /\ Focused(w) = c
                     THEN [w |-> [w EXCEPT !.focus = 0], stale |-> FALSE]
                     ELSE Blurred(w, e)
         IN /\ c \in w.shown
            /\ ub' = blur.stale
            /\ win' = IF ub' THEN blur.w
                      ELSE DispatchJsEvent([blur.w EXCEPT !.focus = i], c, FALSE, f).w
            /\ want' = Follows(Follows(Follows(want, m), e), f)
            /\ press' = IF f.is = "fail" THEN "none" ELSE c
            /\ CountedFrom(w)
    /\ UNCHANGED <<sent, stray>>

\* toggle_choice.
ClickBox(c) ==
    /\ Act
    /\ \E m \in Effect :
         LET w == Pressed(m)
         IN /\ c \in w.shown
            /\ win' = [w EXCEPT !.focus = 0, !.inputs[c].checked = ~@]
            /\ want' = [Follows(want, m) EXCEPT ![c].checked = ~w.inputs[c].checked]
            /\ CountedFrom(w)
    /\ UNCHANGED <<sent, ub, stray>>

ClickSubmit ==
    /\ Act
    /\ \E m \in Effect : \E e \in BlurEffect(Pressed(m)) :
         LET w == Pressed(m)
             blur == Blurred(w, e)
         IN /\ ub' = blur.stale
            /\ want' = Follows(Follows(want, m), e)
            /\ IF ub' THEN win' = blur.w /\ UNCHANGED sent
               ELSE SubmitForm(blur.w, want')
            /\ CountedFrom(w)
    /\ UNCHANGED stray

Superseded(before, after) == after.gen # before.gen

\* A press elsewhere on the page: the click goes to the worker first, whatever
\* the script mode, its link, if it has one, is followed, and the form of the
\* button the point is on, if any, is submitted when no load has begun since
\* the blur.  Where the point has no node, nothing is sent.
ClickContent(linked, button) ==
    /\ Act
    /\ stray' = TRUE
    /\ \E m \in Effect, f \in Effect \cup {[is |-> "fail"]} :
       \E e \in BlurEffect(Pressed(m)) :
         LET before == Blurred(Pressed(m), e).w
             clicked == IF f.is = "fail" THEN before ELSE ApplyClickResult(before, f)
             after == IF linked /\ f.is \notin {"nav", "fail"}
                      THEN [clicked EXCEPT !.gen = @ + 1] ELSE clicked
         IN /\ want' = Follows(Follows(Follows(want, m), e), f)
            /\ IF ~button \/ Superseded(before, after)
               THEN win' = after /\ UNCHANGED sent
               ELSE SubmitForm(after, want')
            /\ CountedFrom(Pressed(m))
    /\ UNCHANGED ub

\* Any other event the page hears of: the pointer enters, moves, leaves, is
\* released or turns its wheel, or a timer fires.
PageEvent ==
    /\ Act
    /\ js
    /\ \E e \in Effects \ {[is |-> "fail"]} :
         /\ win' = ApplyClickResult(win, e)
         /\ want' = Follows(want, e)
    /\ Counted
    /\ UNCHANGED <<sent, ub, stray>>

\* A load ends: clear_doc, and the controls of the new page.
Blank == [c \in Controls |-> [text |-> <<>>, checked |-> FALSE]]

Loaded ==
    /\ Act
    /\ win.gen > 0
    /\ win' = Seeded(Blank, Controls, 0)
    /\ want' = Blank
    /\ led' = 0
    /\ begun' = 0
    /\ stray' = FALSE
    /\ sent' = NotSent
    /\ UNCHANGED ub

Init ==
    /\ js \in BOOLEAN
    /\ win = Seeded(Blank, Controls, 0)
    /\ want = Blank
    /\ sent = NotSent
    /\ ub = FALSE
    /\ led = 0
    /\ begun = 0
    /\ stray = FALSE
    /\ press = "none"
    /\ acts = 0

Next ==
    \/ Type \/ Backspace \/ Escape \/ Enter \/ ClickSubmit \/ PageEvent \/ Loaded
    \/ \E c \in ToSet(Texts) : ClickText(c)
    \/ \E c \in ToSet(Boxes) : ClickBox(c)
    \/ \E linked, button \in BOOLEAN : ClickContent(linked, button)

Spec == Init /\ [][Next]_vars

(*------------------------------ properties -------------------------------*)

TypeOK ==
    /\ win.focus \in 0 .. Len(Fields(win))
    /\ DOMAIN win.inputs = win.shown

\* A submit sends each control as the user, or the page, last left it:
\* submit_form "gathers the named controls' current values".
SubmitsTyped ==
    sent.is = "sent" =>
        \A c \in sent.shown :
            IF c \in DOMAIN sent.values THEN sent.values[c] = sent.want[c]
            ELSE ~sent.want[c].checked

\* With scripts off, a form submitted with Enter or with its submit control is
\* sent as the user filled it in, unless the page was pressed elsewhere since.
FilledIn == ~js /\ ~stray => SubmitsTyped

\* Nothing reads a control or a block of a document that a handler's answer
\* has replaced, nor the entry before the array of controls.  It rests on the
\* focus being lost on every page with scripts (TakesFocus).
NoFreedRead == ~ub

\* From its blur on, a press on a button begins at most one load: "a click that
\* navigated (link, handler) supersedes the submit".  The generation is read
\* after the mousedown, whose handler may have navigated already (led).
OneLoadPerPress == begun <= 1

\* The mousedown counted too: one press, one load.
OneLoadPerGesture == led + begun <= 1

\* The three together.
FormSound == FilledIn /\ NoFreedRead /\ OneLoadPerPress

\* A control that is clicked has the keyboard: "restored afterward if the
\* input still exists".
TakesFocus == press \in win.shown /\ led + begun = 0 => win.focus # 0
================================================================================
