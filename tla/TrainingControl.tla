--------------------------- MODULE TrainingControl ---------------------------
(***************************************************************************)
(* Training: employees, courses and training records.  The handlers of     *)
(* app/api/routes/training.py and, for the browser, training_pages.py,     *)
(* with the rule of app/services/training_workflow.py that both call.      *)
(*                                                                         *)
(* No handler awaits anything, so in one process each is one step.  With   *)
(* several processes a certification is two: it loads the record and the   *)
(* policy of its course and, at its commit, writes the columns whose value *)
(* differs from the one it has loaded, as the ORM's unit of work does.     *)
(*                                                                         *)
(* Left out: names, notes, the SOP a course is linked with, and the clock: *)
(* whether a certificate has expired is computed when it is shown.         *)
(***************************************************************************)
EXTENDS Calendar, FiniteSets

CONSTANTS
    Employees,      \* ids of employees without an account
    Users,          \* ids of the users of the organization
    Courses,        \* ids of its courses
    Records,        \* ids of its training records
    Days,           \* the days on which trainees are certified
    ApiPeriods,     \* recertification periods that the API's schema accepts
    FormPeriods,    \* those that the browser's form accepts
    Acknowledgments,    \* what trainees type
    Blank,          \* what is left when they have typed spaces
    Null,           \* a NULL column
    Requests        \* certifications that other processes may be working on

ASSUME DaysAssumption == \A d \in Days : IsDate(d)
ASSUME PeriodAssumption ==
    /\ ApiPeriods \subseteq 1 .. 600
    /\ FormPeriods \subseteq Int
    /\ ApiPeriods \subseteq FormPeriods
ASSUME NullAssumption ==
    Null \notin Users \cup Int \cup Acknowledgments \cup {Blank} /\ ~IsDate(Null)

VARIABLES
    employees,      \* the employees table: which are active
    courses,        \* the training_courses table
    records,        \* the training_records table
    certifying,     \* certifications that are computed and not committed
    put,            \* history: records set to Trained without a certification
    outdated,       \* history: records certified under a period since changed
    raced           \* history: records written while another process certified them

history == <<put, outdated, raced>>

vars == <<employees, courses, records, certifying, history>>

TrainingStatus == {"Assigned", "In_Progress", "Trained", "Waived"}

Period == ApiPeriods \cup FormPeriods \cup {Null}

Course == [is_active : BOOLEAN, period : Period]

Texts == Acknowledgments \cup {Blank}

IsDateOrNull(d) == d = Null \/ IsDate(d)

IsRecord(record) ==
    /\ DOMAIN record = {"course", "trainee", "status", "trained_date", "trained_by",
                        "trainee_acknowledgment", "expiry_date"}
    /\ record.course \in DOMAIN courses
    /\ record.trainee \in DOMAIN employees \cup Users
    /\ record.status \in TrainingStatus
    /\ IsDateOrNull(record.trained_date)
    /\ record.trained_by \in Users \cup {Null}
    /\ record.trainee_acknowledgment \in Texts \cup {Null}
    /\ IsDateOrNull(record.expiry_date)

Columns == {"status", "trained_date", "trained_by", "trainee_acknowledgment", "expiry_date"}

TypeOK ==
    /\ DOMAIN employees \subseteq Employees /\ employees \in [DOMAIN employees -> BOOLEAN]
    /\ DOMAIN courses \subseteq Courses /\ courses \in [DOMAIN courses -> Course]
    /\ DOMAIN records \subseteq Records /\ \A rec \in DOMAIN records : IsRecord(records[rec])
    /\ \A c \in certifying :
          /\ DOMAIN c = {"request", "record", "writes"}
          /\ c.request \in Requests
          /\ c.record \in DOMAIN records
          /\ DOMAIN c.writes \subseteq Columns
    /\ put \cup outdated \cup raced \subseteq Records

Init ==
    /\ employees = [e \in {} |-> Null]
    /\ courses = [c \in {} |-> Null]
    /\ records = [rec \in {} |-> Null]
    /\ certifying = {}
    /\ put = {}
    /\ outdated = {}
    /\ raced = {}

----------------------------------------------------------------------------
(* Rules *)

Insert(table, id, row) ==
    [x \in DOMAIN table \cup {id} |-> IF x = id THEN row ELSE table[x]]

\* certify_record of training_workflow.py.  A period of 0 counts as none.
\* Mutant: without a period the expiry of an earlier certification stays.
Certified_Mutant(record, period, trainer, text, when) ==
    [record EXCEPT !.status       = "Trained",
                   !.trained_date = when,
                   !.trained_by   = trainer,
                   !.trainee_acknowledgment = text,
                   !.expiry_date  = IF period \in {Null, 0} THEN record.expiry_date
                                    ELSE AddMonths(when, period)]

\* Mutant: the trainer is not recorded.
Certified_Unsigned(record, period, trainer, text, when) ==
    [record EXCEPT !.status       = "Trained",
                   !.trained_date = when,
                   !.trainee_acknowledgment = text,
                   !.expiry_date  = IF period \in {Null, 0} THEN Null
                                    ELSE AddMonths(when, period)]

Certified(record, period, trainer, text, when) ==
    [record EXCEPT !.status       = "Trained",
                   !.trained_date = when,
                   !.trained_by   = trainer,
                   !.trainee_acknowledgment = text,
                   !.expiry_date  = IF period \in {Null, 0} THEN Null
                                    ELSE AddMonths(when, period)]

\* A date outside of the calendar is an error, and nothing is written.
Certifies(rec, when) ==
    LET period == courses[records[rec].course].period
    IN  period \notin {Null, 0} => IsDate(AddMonths(when, period))

----------------------------------------------------------------------------
(* What the handlers do to the tables *)

AddEmployee(e) ==
    /\ e \notin DOMAIN employees
    /\ employees' = Insert(employees, e, TRUE)
    /\ UNCHANGED <<courses, records, certifying, history>>

RemoveEmployee(e) ==
    /\ employees' = [employees EXCEPT ![e] = FALSE]
    /\ UNCHANGED <<courses, records, certifying, history>>

AddCourse(c, period) ==
    /\ c \notin DOMAIN courses
    /\ courses' = Insert(courses, c, [is_active |-> TRUE, period |-> period])
    /\ UNCHANGED <<employees, records, certifying, history>>

SetPeriod(c, period) ==
    /\ courses' = [courses EXCEPT ![c].period = period]
    /\ outdated' = IF period = courses[c].period THEN outdated
                   ELSE outdated \cup {rec \in DOMAIN records : records[rec].course = c}
    /\ UNCHANGED <<employees, records, certifying, put, raced>>

RemoveCourse(c) ==
    /\ courses' = [courses EXCEPT ![c].is_active = FALSE]
    /\ UNCHANGED <<employees, records, certifying, history>>

AddRecord(rec, c, trainee) ==
    /\ rec \notin DOMAIN records
    /\ records' = Insert(records, rec,
           [course |-> c, trainee |-> trainee, status |-> "Assigned",
            trained_date |-> Null, trained_by |-> Null, trainee_acknowledgment |-> Null,
            expiry_date |-> Null])
    /\ UNCHANGED <<employees, courses, certifying, history>>

\* Whether another process is certifying the record.
Raced(rec, others) ==
    IF \E c \in others : c.record = rec THEN raced \cup {rec} ELSE raced

SetStatus(rec, status) ==
    /\ records' = [records EXCEPT ![rec].status = status]
    /\ put' = IF status = "Trained" THEN put \cup {rec} ELSE put
    /\ raced' = Raced(rec, certifying)
    /\ UNCHANGED <<employees, courses, certifying, outdated>>

Certify(rec, trainer, text, when) ==
    /\ Certifies(rec, when)
    /\ records' = [records EXCEPT
           ![rec] = Certified(@, courses[@.course].period, trainer, text, when)]
    /\ put' = put \ {rec}
    /\ outdated' = outdated \ {rec}
    /\ raced' = Raced(rec, certifying)
    /\ UNCHANGED <<employees, courses, certifying>>

\* The row is gone, so that a certification under way fails at its commit, and
\* nothing of its history concerns a later row.
RemoveRecord(rec) ==
    /\ records' = [x \in DOMAIN records \ {rec} |-> records[x]]
    /\ certifying' = {c \in certifying : c.record # rec}
    /\ put' = put \ {rec}
    /\ outdated' = outdated \ {rec}
    /\ raced' = raced \ {rec}
    /\ UNCHANGED <<employees, courses>>

----------------------------------------------------------------------------
(* The handlers of training.py *)

EmployeeInOrg(e) == e \in DOMAIN employees /\ employees[e]

CourseInOrg(c) == c \in DOMAIN courses /\ courses[c].is_active

RecordInOrg(rec) == rec \in DOMAIN records

ValidTrainee(trainee) == trainee \in Users \/ EmployeeInOrg(trainee)

CreateEmployee(e) == AddEmployee(e)

DeleteEmployee(e) == EmployeeInOrg(e) /\ RemoveEmployee(e)

CreateCourse(c, period) == period \in ApiPeriods \cup {Null} /\ AddCourse(c, period)

UpdateCourse(c, period) ==
    CourseInOrg(c) /\ period \in ApiPeriods \cup {Null} /\ SetPeriod(c, period)

DeleteCourse(c) == CourseInOrg(c) /\ RemoveCourse(c)

\* Mutant: the course is not looked up.
AssignRecord_Mutant(rec, c, trainee) == ValidTrainee(trainee) /\ AddRecord(rec, c, trainee)

AssignRecord(rec, c, trainee) ==
    CourseInOrg(c) /\ ValidTrainee(trainee) /\ AddRecord(rec, c, trainee)

UpdateRecord(rec, status) == RecordInOrg(rec) /\ SetStatus(rec, status)

\* Spaces are removed from the acknowledgment after its length is checked.
CertifyRecord(rec, trainer, text, when) == RecordInOrg(rec) /\ Certify(rec, trainer, text, when)

DeleteRecord(rec) == RecordInOrg(rec) /\ RemoveRecord(rec)

(* The handlers of training_pages.py *)

EmployeeOr404(e) == e \in DOMAIN employees /\ employees[e]

CourseOr404(c) == c \in DOMAIN courses /\ courses[c].is_active

RecordOr404(rec) == rec \in DOMAIN records

EmployeeCreateSubmit(e) == AddEmployee(e)

EmployeeDelete(e) == EmployeeOr404(e) /\ RemoveEmployee(e)

CourseCreateSubmit(c, period) == period \in FormPeriods \cup {Null} /\ AddCourse(c, period)

CourseEditSubmit(c, period) ==
    CourseOr404(c) /\ period \in FormPeriods \cup {Null} /\ SetPeriod(c, period)

CourseDelete(c) == CourseOr404(c) /\ RemoveCourse(c)

\* Mutant: a deleted course is still offered.
TrainingAssign_Mutant(rec, c, trainee) ==
    /\ c \in DOMAIN courses
    /\ trainee \in Users \/ EmployeeOr404(trainee)
    /\ AddRecord(rec, c, trainee)

TrainingAssign(rec, c, trainee) ==
    /\ CourseOr404(c)
    /\ trainee \in Users \/ EmployeeOr404(trainee)
    /\ AddRecord(rec, c, trainee)

TrainingRecordStatus(rec, status) == RecordOr404(rec) /\ SetStatus(rec, status)

TrainingCertify(rec, trainer, text, when) ==
    RecordOr404(rec) /\ text # Blank /\ Certify(rec, trainer, text, when)

TrainingRecordDelete(rec) == RecordOr404(rec) /\ RemoveRecord(rec)

----------------------------------------------------------------------------
(* A certification of another process *)

BeginCertify(request, rec, trainer, text, when) ==
    LET old == records[rec]
        new == Certified(old, courses[old.course].period, trainer, text, when)
    IN  /\ RecordInOrg(rec)
        /\ \A c \in certifying : c.request # request
        /\ Certifies(rec, when)
        /\ certifying' = certifying \cup
               {[request |-> request, record |-> rec,
                 writes  |-> [column \in {f \in Columns : new[f] # old[f]} |-> new[column]]]}
        /\ UNCHANGED <<employees, courses, records, history>>

CommitCertify(c) ==
    LET rec == c.record
    IN  /\ records' = [records EXCEPT ![rec] =
               [f \in DOMAIN @ |-> IF f \in DOMAIN c.writes THEN c.writes[f] ELSE @[f]]]
        /\ certifying' = certifying \ {c}
        /\ raced' = Raced(rec, certifying \ {c})
        /\ UNCHANGED <<employees, courses, put, outdated>>

\* The commit fails or the process stops.
AbandonCertify(c) ==
    /\ certifying' = certifying \ {c}
    /\ UNCHANGED <<employees, courses, records, history>>

----------------------------------------------------------------------------

ApiStep ==
    \/ \E e \in Employees : CreateEmployee(e) \/ DeleteEmployee(e)
    \/ \E c \in Courses :
          \/ DeleteCourse(c)
          \/ \E period \in Period : CreateCourse(c, period) \/ UpdateCourse(c, period)
    \/ \E rec \in Records :
          \/ DeleteRecord(rec)
          \/ \E c \in Courses, trainee \in Employees \cup Users : AssignRecord(rec, c, trainee)
          \/ \E status \in TrainingStatus : UpdateRecord(rec, status)
          \/ \E trainer \in Users, text \in Texts, when \in Days :
                CertifyRecord(rec, trainer, text, when)

PageStep ==
    \/ \E e \in Employees : EmployeeCreateSubmit(e) \/ EmployeeDelete(e)
    \/ \E c \in Courses :
          \/ CourseDelete(c)
          \/ \E period \in Period : CourseCreateSubmit(c, period) \/ CourseEditSubmit(c, period)
    \/ \E rec \in Records :
          \/ TrainingRecordDelete(rec)
          \/ \E c \in Courses, trainee \in Employees \cup Users : TrainingAssign(rec, c, trainee)
          \/ \E status \in TrainingStatus : TrainingRecordStatus(rec, status)
          \/ \E trainer \in Users, text \in Texts, when \in Days :
                TrainingCertify(rec, trainer, text, when)

OtherProcess ==
    \/ \E request \in Requests, rec \in Records, trainer \in Users,
          text \in Texts, when \in Days :
          BeginCertify(request, rec, trainer, text, when)
    \/ \E c \in certifying : CommitCertify(c) \/ AbandonCertify(c)

Next == ApiStep \/ PageStep \/ OtherProcess

Spec == Init /\ [][Next]_vars

----------------------------------------------------------------------------
(* Properties *)

\* "Trained (with a trainer sign-off)": a record that counts as trained, now
\* or formerly, has its evidence, the trainer, the date and what the trainee has
\* typed, whatever overlaps, unless a PUT or the status form has set it to
\* Trained.
TrainedHasEvidence ==
    \A rec \in DOMAIN records :
        LET record == records[rec]
        IN  /\ record.status = "Trained" /\ rec \notin put => record.trained_date # Null
            /\ (record.trained_date = Null) = (record.trained_by = Null)
            /\ (record.trained_date = Null) = (record.trainee_acknowledgment = Null)
            /\ record.trained_date = Null => record.expiry_date = Null

\* What a course requires is what its records say: a certificate expires so
\* many months after the training, on the day the calendar has, and never if
\* the course asks for no renewal.  Exempt are certificates older than the
\* policy and those on which two processes have worked at a time.
ExpiryFollowsPolicy ==
    \A rec \in DOMAIN records \ (outdated \cup raced) :
        LET record == records[rec]
            period == courses[record.course].period
        IN  record.trained_date # Null =>
               IF period \in {Null, 0} THEN record.expiry_date = Null
               ELSE IsMonthsAfter(record.expiry_date, record.trained_date, period)

\* The step gives a course a period that the API does not accept.
FormPeriodSet ==
    \E c \in DOMAIN courses' :
        /\ courses'[c].period \notin ApiPeriods \cup {Null}
        /\ c \in DOMAIN courses => courses'[c].period # courses[c].period

\* The step certifies a record with an acknowledgment that the browser refuses.
BlankAccepted ==
    \E rec \in Records, trainer \in Users, when \in Days :
        CertifyRecord(rec, trainer, Blank, when)

\* "Behavior can't drift between the two surfaces": whatever the browser does the
\* API can do, and the other way around, but for the periods that only the form
\* accepts and the blank acknowledgments that only the API does.
NoDrift ==
    [][/\ PageStep => ApiStep \/ FormPeriodSet
       /\ ApiStep => PageStep \/ BlankAccepted]_vars

=============================================================================
