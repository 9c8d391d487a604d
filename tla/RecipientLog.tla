--------------------------- MODULE RecipientLog ---------------------------
(***************************************************************************)
(* What the log promises about the recipients of a message: a row exists   *)
(* before anything is recorded in it; what a submission was answered is     *)
(* recorded at most once, or given up; and a delivery notification, which   *)
(* names a reference, changes the status of a row that holds one, and       *)
(* nothing else.                                                           *)
(***************************************************************************)
EXTENDS Naturals

CONSTANTS Messages, Recipients

VARIABLES
  row,      \* the row of each recipient: its status and its reference
  due,      \* the answer that is still to be recorded in it
  sends     \* how often the message was submitted

vars == <<row, due, sends>>

Nothing == [status |-> "None", reference |-> "Null"]

NothingDue == [r \in Recipients |-> Nothing]

Init ==
  /\ row = [m \in Messages |-> [r \in Recipients |->
                                  [status |-> "Absent", reference |-> "Null"]]]
  /\ due = [m \in Messages |-> NothingDue]
  /\ sends = [m \in Messages |-> 0]

Insert(m) ==
  /\ \A r \in Recipients : row[m][r].status = "Absent"
  /\ row' = [row EXCEPT ![m] = [r \in Recipients |->
                                  [status |-> "Inserted", reference |-> "Null"]]]
  /\ UNCHANGED <<due, sends>>

(* A submission is answered for every recipient, or nothing is recorded.   *)
Answers ==
  {NothingDue} \cup
  [Recipients -> [status : {"Submitted", "AcceptanceFailure"},
                  reference : {"Null", "Own", "Api"}]]

Submit(m) ==
  /\ due[m] = NothingDue
  /\ \E answer \in Answers : due' = [due EXCEPT ![m] = answer]
  /\ sends' = [sends EXCEPT ![m] = @ + 1]
  /\ UNCHANGED row

Record(m, r) ==
  /\ due[m][r] # Nothing
  /\ row[m][r].status # "Absent"
  /\ row' = [row EXCEPT ![m][r] = due[m][r]]
  /\ due' = [due EXCEPT ![m][r] = Nothing]
  /\ UNCHANGED sends

GiveUp ==
  /\ \E given \in SUBSET Messages :
       due' = [m \in Messages |-> IF m \in given THEN NothingDue ELSE due[m]]
  /\ UNCHANGED <<row, sends>>

(* Whose reference a notification names, and hence which rows it finds, is  *)
(* not said here.                                                          *)
Notify(m, r) ==
  /\ row[m][r].reference # "Null"
  /\ \E s \in {"Delivered", "DeliveryFailure"} :
       row' = [row EXCEPT ![m][r].status = s]
  /\ UNCHANGED <<due, sends>>

Next ==
  \/ \E m \in Messages : Insert(m) \/ Submit(m)
  \/ \E m \in Messages, r \in Recipients : Record(m, r) \/ Notify(m, r)
  \/ GiveUp

Spec == Init /\ [][Next]_vars
=============================================================================
