------------------------------ MODULE CastList ------------------------------
(***************************************************************************)
(* The program of kubecast's user interface (ui/src/Main.elm and           *)
(* Cast/Update.elm): the list of recordings, the one that is displayed and *)
(* the messages and commands that change them.                             *)
(*                                                                         *)
(* The server lists its recordings again and again; a list message is the  *)
(* sequence of its lines.  mail holds the messages of the main process and *)
(* out the commands of the port displayCast: modules WebSocketManager and  *)
(* Platform say that both are handled once and in order.                   *)
(***************************************************************************)
EXTENDS Integers, Sequences, SequencesExt

CONSTANTS
    Files,     \* the names of all cast files there may be, in Glob's order
    Labels,    \* the line of labels of each
    MaxOut,    \* bound: values on their way to the port
    Bare       \* bound: the files whose labels may fail to be written

ASSUME ListAssumption ==
    /\ Files \in Seq(STRING) /\ Labels \in Seq(STRING) /\ Len(Labels) = Len(Files)
    /\ IsInjective(Files) /\ IsInjective(Labels)
    /\ MaxOut \in Nat

VARIABLES
    dir,       \* of every file: absent, labelled, or listed without labels
    mail,      \* messages for update
    model,     \* the Elm model, without its location
    out,       \* values for the port displayCast
    played,    \* the value that displayCast got last
    grew       \* every list so far began with the one before it

listVars == <<dir, mail, model, out, played, grew>>

File == DOMAIN Files

\* toString puts a string between quotes.
toString(string) == "'" \o string \o "'"

\* The values of the options.
Words == {toString(Files[i]) : i \in File}

initialModel == [cast |-> "", casts |-> <<>>, labels |-> <<>>]

ListInit ==
    /\ dir = [i \in File |-> "absent"]
    /\ mail = <<>> /\ out = <<>> /\ played = ""
    /\ model = initialModel
    /\ grew = TRUE

-----------------------------------------------------------------------------
(* Update.elm and Helpers.elm *)

\* Mutant of trimSplit: no line that is empty.
trimSplitWords(lines) ==
    LET full == SelectSeq(lines, LAMBDA line : line # "")
    IN IF full = <<>> THEN <<"">> ELSE full

\* Lines without the empty ones at the end, none being one empty line.
trimSplit(lines) ==
    LET full == {i \in DOMAIN lines : lines[i] # ""}
    IN IF full = {} THEN <<"">>
       ELSE SubSeq(lines, 1, CHOOSE i \in full : \A j \in full : j <= i)

oddElements(list) == [i \in 1..((Len(list) + 1) \div 2) |-> list[2 * i - 1]]

evenElements(list) == [i \in 1..(Len(list) \div 2) |-> list[2 * i]]

\* Mutant of setCastIfEmpty: forgets to ask.
setCastAlways(currentCast, newCasts) == [cast |-> newCasts[1], command |-> <<newCasts[1]>>]

\* The list of casts is never empty: no file at all is a cast without name.
setCastIfEmpty(currentCast, newCasts) ==
    IF currentCast = "" THEN [cast |-> newCasts[1], command |-> <<newCasts[1]>>]
    ELSE [cast |-> currentCast, command |-> <<>>]

\* Mutant of DisplayCast: no command.
DisplayCastSilent(cast) == [model |-> [model EXCEPT !.cast = cast], command |-> <<>>]

\* The new model and the command that update gives.
DisplayCast(cast) == [model |-> [model EXCEPT !.cast = cast], command |-> <<cast>>]

\* Mutant of ListCasts: lists nothing more once it has a cast.
ListCastsOnce(lines) ==
    LET casts == oddElements(trimSplit(lines))
        set == setCastIfEmpty(model.cast, casts)
    IN [model |-> IF model.cast # "" THEN model
                  ELSE [cast |-> set.cast, casts |-> casts, labels |-> evenElements(trimSplit(lines))],
        command |-> set.command]

ListCasts(lines) ==
    LET casts == oddElements(trimSplit(lines))
        set == setCastIfEmpty(model.cast, casts)
    IN [model |-> [cast |-> set.cast, casts |-> casts, labels |-> evenElements(trimSplit(lines))],
        command |-> set.command]

\* Only the location of the model changes, and of the parts of it that
\* subscriptions reads none without a page load.
OnLocationChange == [model |-> model, command |-> <<>>]

\* The main process handles a message: update, and the effects.
onMessage(msg, r) ==
    /\ mail # <<>> /\ Head(mail).ctor = msg /\ Len(out) < MaxOut
    /\ mail' = Tail(mail)
    /\ model' = r.model
    /\ out' = out \o r.command
    /\ UNCHANGED <<dir, played>>

update ==
    \/ onMessage("DisplayCast", DisplayCast(Head(mail).lines[1])) /\ UNCHANGED grew
    \/ /\ onMessage("ListCasts", ListCasts(Head(mail).lines))
       /\ grew' = (grew /\ (model.casts = <<"">> \/ IsPrefix(model.casts, model'.casts)))
    \/ onMessage("OnLocationChange", OnLocationChange) /\ UNCHANGED grew

-----------------------------------------------------------------------------
(* The page and its user, as far as the program has to do with them *)

\* The function that listens to the port gets a value.
Display ==
    /\ out # <<>>
    /\ out' = Tail(out)
    /\ played' = Head(out)
    /\ UNCHANGED <<dir, mail, model, grew>>

\* The bound: one choice at a time is on its way.
Choose(ctor, word) ==
    /\ \A i \in DOMAIN mail : mail[i].ctor # "DisplayCast"
    /\ mail' = Append(mail, [ctor |-> ctor, lines |-> <<word>>])
    /\ UNCHANGED <<dir, model, out, played, grew>>

\* External: the address changes without a page load.
Hash ==
    /\ mail = <<>> /\ out = <<>>
    /\ mail' = <<[ctor |-> "OnLocationChange", lines |-> <<>>]>>
    /\ UNCHANGED <<dir, model, out, played, grew>>

-----------------------------------------------------------------------------
(* The server, as modules Upload and Listing have it *)

\* The first record of a session: its cast file is there from now on, and a
\* labels file that is empty if writing it failed.
Session(i) ==
    /\ dir[i] = "absent"
    /\ \/ dir' = [dir EXCEPT ![i] = "labelled"]
       \/ i \in Bare /\ dir' = [dir EXCEPT ![i] = "unlabelled"]
    /\ UNCHANGED <<mail, model, out, played, grew>>

Ascending(list) == \A j, k \in DOMAIN list : j < k => list[j] < list[k]

\* The files there are, in Glob's order.
IsListed(list) ==
    /\ Ascending(list)
    /\ {list[k] : k \in DOMAIN list} = {i \in File : dir[i] # "absent"}

\* A line for every file and a line for its labels.
Lines(list) ==
    [n \in 1..(2 * Len(list)) |->
        LET i == list[(n + 1) \div 2]
        IN IF n % 2 = 1 THEN Files[i] ELSE IF dir[i] = "labelled" THEN Labels[i] ELSE ""]

\* The bound: one list at a time is on its way.
listHandler ==
    /\ \A i \in DOMAIN mail : mail[i].ctor # "ListCasts"
    /\ \E list \in UNION {[1..n -> File] : n \in 0..Len(Files)} :
         /\ IsListed(list)
         /\ mail' = Append(mail, [ctor |-> "ListCasts", lines |-> Lines(list)])
    /\ UNCHANGED <<dir, model, out, played, grew>>

ListNext ==
    \/ update
    \/ Display
    \/ \E word \in Words : Choose("DisplayCast", word)
    \/ Hash
    \/ \E i \in File : Session(i)
    \/ listHandler

ListSpec == ListInit /\ [][ListNext]_listVars

-----------------------------------------------------------------------------

\* The casts of the program are recordings, each once and in the server's
\* order, and every label it has stands at the same place as the recording it
\* is of: the list message and update's two halves of it stay in step,
\* whatever sessions lack labels, one label to a cast or one short.
Paired ==
    LET casts == model.casts
        labels == model.labels
    IN  \/ casts \in {<<>>, <<"">>} /\ labels = <<>>
        \/ /\ Len(labels) \in {Len(casts), Len(casts) - 1}
           /\ \E list \in [1..Len(casts) -> File] :
                /\ Ascending(list)
                /\ \A k \in 1..Len(casts) : casts[k] = Files[list[k]]
                /\ \A k \in 1..Len(labels) : labels[k] \in {Labels[list[k]], ""}

\* Once the port has handled its values, what was displayed last is the cast
\* the program has down as displayed, whatever was picked and listed
\* meanwhile.
PlaysCast == (IF out = <<>> THEN played ELSE out[Len(out)]) = model.cast

=============================================================================
