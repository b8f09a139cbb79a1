----------------------- MODULE TrainingControlProofs -----------------------
(***************************************************************************)
(* Proofs about Calendar and TrainingControl, for any sets of employees,   *)
(* users, courses, records, days and periods and any certifications of     *)
(* other processes: what add_months promises; that a record that counts as *)
(* trained has its evidence; that certificates expire as their course asks *)
(* for; and that the browser's handlers and the API's do the same.         *)
(* A certification that nothing has overtaken writes a whole certificate.  *)
(***************************************************************************)
EXTENDS TrainingControl, TLAPS

\* A month has 28 to 31 days.
LEMMA MonthLengths ==
    ASSUME NEW year, NEW month
    PROVE  MonthLength(year, month) \in 28 .. 31
  BY DEF MonthLength

\* The fields of a date are numbers.
LEMMA DateFields ==
    ASSUME NEW d, IsDate(d)
    PROVE  d.year \in Int /\ d.month \in Int /\ d.day \in Int
  <1>1. d \in [year : MINYEAR .. MAXYEAR, month : 1 .. 12, day : 1 .. 31]
    BY DEF IsDate
  <1>2. \A Y, M, D : d \in [year : Y, month : M, day : D] =>
                        d.year \in Y /\ d.month \in M /\ d.day \in D
    OBVIOUS
  <1>3. d.year \in MINYEAR .. MAXYEAR /\ d.month \in 1 .. 12 /\ d.day \in 1 .. 31
    BY <1>1, <1>2
  <1>4. \A first, last \in Int : first .. last \subseteq Int
    OBVIOUS
  <1>5. MINYEAR \in Int /\ MAXYEAR \in Int
    BY DEF MINYEAR, MAXYEAR
  <1>. QED  BY <1>3, <1>4, <1>5

\* Division by the months of a year, with a remainder.
LEMMA YearsAndMonths ==
    ASSUME NEW n \in Int
    PROVE  /\ (n \div 12) \in Int /\ (n % 12) \in Int
           /\ 12 * (n \div 12) + (n % 12) = n
  OBVIOUS

\* The docstring of add_months, "clamping the day to the month length": its
\* result lies in the month so many months after the start, on the same day or
\* on the last one, as long as the result is in the calendar at all.
THEOREM AddMonthsCorrect ==
    ASSUME NEW start, NEW months \in Int, IsDate(start), IsDate(AddMonths(start, months))
    PROVE  IsMonthsAfter(AddMonths(start, months), start, months)
  <1>. DEFINE zero == start.month - 1 + months
              year == start.year + (zero \div 12)
              month == (zero % 12) + 1
              last == MonthLength(year, month)
              result == AddMonths(start, months)
  <1>1. /\ start.year \in Int /\ start.month \in Int /\ start.day \in Int
        /\ zero \in Int
    <2>1. start.year \in Int /\ start.month \in Int /\ start.day \in Int
      BY DateFields
    <2>. QED  BY <2>1
  <1>2. /\ (zero \div 12) \in Int /\ (zero % 12) \in Int
        /\ 12 * (zero \div 12) + (zero % 12) = zero
    <2>. HIDE DEF zero
    <2>. QED  BY <1>1, YearsAndMonths
  <1>4. last \in Int
    BY MonthLengths
  <1>5. /\ result.year = year /\ result.month = month
        /\ result.day = IF start.day < last THEN start.day ELSE last
    BY DEF AddMonths
  <1>6. MonthNumber(result) = MonthNumber(start) + months
    <2>. DEFINE q == zero \div 12
                m == zero % 12
    <2>1. 12 * q + m = start.month - 1 + months /\ q \in Int /\ m \in Int
      BY <1>2
    <2>2. result.year = start.year + q /\ result.month = m + 1
      BY <1>5
    <2>. HIDE DEF q, m, result
    <2>. QED  BY <1>1, <2>1, <2>2 DEF MonthNumber
  <1>7. \/ result.day = start.day
        \/ result.day < start.day /\ result.day = MonthLength(result.year, result.month)
    <2>1. result.day = IF start.day < last THEN start.day ELSE last
      BY <1>5
    <2>2. last = MonthLength(result.year, result.month)
      BY <1>5
    <2>. HIDE DEF last, result
    <2>. QED  BY <1>1, <1>4, <2>1, <2>2
  <1>. QED  BY <1>6, <1>7 DEF IsMonthsAfter

----------------------------------------------------------------------------
(* What certifying writes *)

\* The row that a commit leaves when it writes some of its columns.
Merged(record, writes) ==
    [f \in DOMAIN record |-> IF f \in DOMAIN writes THEN writes[f] ELSE record[f]]

\* The expiry of a record is what a recertification period asks for.
Follows(record, period) ==
    IF period \in {Null, 0} THEN record.expiry_date = Null
    ELSE IsMonthsAfter(record.expiry_date, record.trained_date, period)

PeriodOf(rec) == courses[records[rec].course].period

\* A certification under way writes what a trainer has signed.
WritesTyped ==
    \A c \in certifying :
        /\ "status" \in DOMAIN c.writes => c.writes["status"] = "Trained"
        /\ "trained_date" \in DOMAIN c.writes => IsDate(c.writes["trained_date"])
        /\ "trained_by" \in DOMAIN c.writes => c.writes["trained_by"] \in Users
        /\ "trainee_acknowledgment" \in DOMAIN c.writes =>
              c.writes["trainee_acknowledgment"] \in Texts
        /\ "expiry_date" \in DOMAIN c.writes => IsDateOrNull(c.writes["expiry_date"])

\* The columns that are written together.
Evidence == {"trained_date", "trained_by", "trainee_acknowledgment"}

\* It writes them together where the record has none.
WritesEvidence ==
    \A c \in certifying :
        records[c.record].trained_date = Null =>
            Evidence \subseteq DOMAIN c.writes

\* What it will leave follows the policy, if nothing has changed since.
WritesFollowPolicy ==
    \A c \in certifying :
        c.record \notin outdated \cup raced =>
            Follows(Merged(records[c.record], c.writes), PeriodOf(c.record))

Inv == TypeOK /\ WritesTyped

\* Every step of the handlers is one of these changes of the tables.
LEMMA Steps ==
    ASSUME TypeOK, Next
    PROVE  \/ \E e \in Employees : AddEmployee(e)
           \/ \E e \in DOMAIN employees : RemoveEmployee(e)
           \/ \E c \in Courses, period \in Period : AddCourse(c, period)
           \/ \E c \in DOMAIN courses, period \in Period : SetPeriod(c, period)
           \/ \E c \in DOMAIN courses : RemoveCourse(c)
           \/ \E rec \in Records, c \in DOMAIN courses, trainee \in DOMAIN employees \cup Users :
                 AddRecord(rec, c, trainee)
           \/ \E rec \in DOMAIN records, status \in TrainingStatus : SetStatus(rec, status)
           \/ \E rec \in DOMAIN records, trainer \in Users, text \in Texts, when \in Days :
                 Certify(rec, trainer, text, when)
           \/ \E rec \in DOMAIN records : RemoveRecord(rec)
           \/ \E request \in Requests, rec \in DOMAIN records, trainer \in Users,
                 text \in Texts, when \in Days :
                 BeginCertify(request, rec, trainer, text, when)
           \/ \E c \in certifying : CommitCertify(c) \/ AbandonCertify(c)
  <1>1. CASE ApiStep
    BY <1>1 DEF ApiStep, CreateEmployee, DeleteEmployee, CreateCourse, UpdateCourse,
                DeleteCourse, AssignRecord, UpdateRecord, CertifyRecord, DeleteRecord,
                EmployeeInOrg, CourseInOrg, RecordInOrg, ValidTrainee
  <1>2. CASE PageStep
    BY <1>2 DEF PageStep, EmployeeCreateSubmit, EmployeeDelete, CourseCreateSubmit,
                CourseEditSubmit, CourseDelete, TrainingAssign, TrainingRecordStatus,
                TrainingCertify, TrainingRecordDelete, EmployeeOr404, CourseOr404, RecordOr404
  <1>3. CASE OtherProcess
    BY <1>3 DEF OtherProcess, BeginCertify, RecordInOrg
  <1>. QED  BY <1>1, <1>2, <1>3 DEF Next

\* A certified record has its status, date, trainer, acknowledgment and the
\* expiry that the policy gives, and is otherwise what it was.
LEMMA CertifiedRow ==
    ASSUME TypeOK, NEW rec \in DOMAIN records, NEW trainer \in Users,
           NEW text \in Texts, NEW when \in Days,
           Certifies(rec, when),
           NEW new, new = Certified(records[rec], courses[records[rec].course].period,
                                    trainer, text, when)
    PROVE  /\ IsRecord(new)
           /\ new.course = records[rec].course
           /\ new.status = "Trained"
           /\ new.trained_date = when /\ IsDate(when) /\ when # Null
           /\ new.trained_by = trainer /\ trainer # Null
           /\ new.trainee_acknowledgment = text /\ text # Null
           /\ Follows(new, PeriodOf(rec))
  <1>. DEFINE record == records[rec]
              period == courses[record.course].period
              expiry == IF period \in {Null, 0} THEN Null ELSE AddMonths(when, period)
  <1>1. /\ DOMAIN record = {"course", "trainee", "status", "trained_date", "trained_by",
                            "trainee_acknowledgment", "expiry_date"}
        /\ record.course \in DOMAIN courses
        /\ record.trainee \in DOMAIN employees \cup Users
    BY DEF TypeOK, IsRecord
  <1>2. IsDate(when) /\ when # Null /\ trainer # Null /\ text # Null
    BY DaysAssumption, NullAssumption DEF Texts
  <1>3. period \in Int \cup {Null}
    <2>1. courses[record.course] \in Course
      BY <1>1 DEF TypeOK
    <2>2. courses[record.course].period \in Period
      BY <2>1 DEF Course
    <2>3. Period \subseteq Int \cup {Null}
      <3>1. ApiPeriods \subseteq Int
        BY PeriodAssumption
      <3>2. FormPeriods \subseteq Int
        BY PeriodAssumption
      <3>. QED  BY <3>1, <3>2 DEF Period
    <2>. QED  BY <2>2, <2>3
  <1>4. period \notin {Null, 0} => period \in Int /\ IsDate(AddMonths(when, period))
    BY <1>3 DEF Certifies
  <1>5. /\ DOMAIN new = DOMAIN record
        /\ new.course = record.course
        /\ new.trainee = record.trainee
        /\ new.status = "Trained"
        /\ new.trained_date = when
        /\ new.trained_by = trainer
        /\ new.trainee_acknowledgment = text
        /\ new.expiry_date = expiry
    BY <1>1 DEF Certified
  <1>6. IsDateOrNull(expiry)
    BY <1>4 DEF IsDateOrNull
  <1>7. period \notin {Null, 0} => IsMonthsAfter(AddMonths(when, period), when, period)
    BY <1>2, <1>4, AddMonthsCorrect
  <1>8. Follows(new, period)
    <2>1. period \notin {Null, 0} => new.expiry_date = AddMonths(when, period)
      BY <1>5
    <2>2. period \in {Null, 0} => new.expiry_date = Null
      BY <1>5
    <2>. HIDE DEF period
    <2>. QED  BY <1>5, <1>7, <2>1, <2>2 DEF Follows
  <1>9. IsRecord(new)
    <2>. HIDE DEF expiry, record
    <2>. QED  BY <1>1, <1>2, <1>5, <1>6 DEF IsRecord, IsDateOrNull, TrainingStatus
  <1>. QED  BY <1>2, <1>5, <1>8, <1>9 DEF PeriodOf

\* What a certification under way writes is what differs from the record.
LEMMA WritesOf ==
    ASSUME TypeOK, NEW rec \in DOMAIN records, NEW trainer \in Users,
           NEW text \in Texts, NEW when \in Days,
           Certifies(rec, when),
           NEW new, new = Certified(records[rec], courses[records[rec].course].period,
                                    trainer, text, when),
           NEW writes,
           writes = [column \in {f \in Columns : new[f] # records[rec][f]} |-> new[column]]
    PROVE  /\ DOMAIN writes = {f \in Columns : new[f] # records[rec][f]}
           /\ \A f \in DOMAIN writes : writes[f] = new[f]
           /\ Merged(records[rec], writes).course = new.course
           /\ Merged(records[rec], writes).trained_date = new.trained_date
           /\ Merged(records[rec], writes).expiry_date = new.expiry_date
  <1>1. DOMAIN records[rec] = {"course", "trainee", "status", "trained_date", "trained_by",
                               "trainee_acknowledgment", "expiry_date"}
    BY DEF TypeOK, IsRecord
  <1>2. /\ DOMAIN writes = {f \in Columns : new[f] # records[rec][f]}
        /\ \A f \in DOMAIN writes : writes[f] = new[f]
    OBVIOUS
  <1>3. new.course = records[rec].course
    BY CertifiedRow
  <1>4. \A f \in Columns : Merged(records[rec], writes)[f] = new[f]
    BY <1>1, <1>2 DEF Merged, Columns
  <1>5. Merged(records[rec], writes).course = records[rec].course
    BY <1>1, <1>2 DEF Merged, Columns
  <1>. QED  BY <1>2, <1>3, <1>4, <1>5 DEF Columns

\* What a commit of a certification leaves of the row.
LEMMA CommittedRow ==
    ASSUME Inv, NEW c \in certifying, CommitCertify(c)
    PROVE  /\ c.record \in DOMAIN records
           /\ DOMAIN records' = DOMAIN records
           /\ records'[c.record] = Merged(records[c.record], c.writes)
           /\ \A rec \in DOMAIN records : rec # c.record => records'[rec] = records[rec]
           /\ IsRecord(Merged(records[c.record], c.writes))
  <1>. DEFINE record == records[c.record]
              new == Merged(record, c.writes)
  <1>1. c.record \in DOMAIN records /\ IsRecord(record)
    BY DEF Inv, TypeOK
  <1>2. records' = [records EXCEPT ![c.record] = new]
    BY DEF CommitCertify, Merged
  <1>3. IsRecord(new)
    <2>1. /\ DOMAIN new = DOMAIN record
          /\ \A f \in DOMAIN record : new[f] = IF f \in DOMAIN c.writes THEN c.writes[f]
                                                                       ELSE record[f]
      BY DEF Merged
    <2>2. DOMAIN c.writes \subseteq Columns
      BY DEF Inv, TypeOK
    <2>3. /\ "status" \in DOMAIN c.writes => c.writes["status"] = "Trained"
          /\ "trained_date" \in DOMAIN c.writes => IsDate(c.writes["trained_date"])
          /\ "trained_by" \in DOMAIN c.writes => c.writes["trained_by"] \in Users
          /\ "trainee_acknowledgment" \in DOMAIN c.writes =>
                c.writes["trainee_acknowledgment"] \in Texts
          /\ "expiry_date" \in DOMAIN c.writes => IsDateOrNull(c.writes["expiry_date"])
      BY DEF Inv, WritesTyped
    <2>4. DOMAIN record = {"course", "trainee", "status", "trained_date", "trained_by",
                           "trainee_acknowledgment", "expiry_date"}
      BY <1>1 DEF IsRecord
    <2>. HIDE DEF record, new
    <2>5. new.course = record.course /\ new.trainee = record.trainee
      BY <2>1, <2>2, <2>4 DEF Columns
    <2>6. /\ new.status \in TrainingStatus
          /\ IsDateOrNull(new.trained_date)
          /\ new.trained_by \in Users \cup {Null}
          /\ new.trainee_acknowledgment \in Texts \cup {Null}
          /\ IsDateOrNull(new.expiry_date)
      BY <1>1, <2>1, <2>3, <2>4 DEF IsRecord, IsDateOrNull, TrainingStatus
    <2>. QED  BY <1>1, <2>1, <2>4, <2>5, <2>6 DEF IsRecord
  <1>. QED  BY <1>1, <1>2, <1>3

----------------------------------------------------------------------------
(* Types *)

LEMMA InitInv == Init => Inv
  BY DEF Init, Inv, TypeOK, WritesTyped

\* Rows keep their types and refer to rows that exist: employees and courses
\* are only deactivated, and a certification under way is gone with its record.
LEMMA StepInv == Inv /\ [Next]_vars => Inv'
  <1>. SUFFICES ASSUME Inv, [Next]_vars PROVE Inv'
    OBVIOUS
  <1>1. TypeOK /\ WritesTyped
    BY DEF Inv
  <1>2. ASSUME NEW e \in Employees, AddEmployee(e)
        PROVE  Inv'
    <2>1. /\ employees' = Insert(employees, e, TRUE)
          /\ DOMAIN employees' = DOMAIN employees \cup {e}
          /\ UNCHANGED <<courses, records, certifying, history>>
      BY <1>2 DEF AddEmployee, Insert
    <2>2. employees' \in [DOMAIN employees' -> BOOLEAN]
      BY <1>1, <2>1 DEF TypeOK, Insert
    <2>. QED  BY <1>1, <2>1, <2>2 DEF Inv, TypeOK, IsRecord, WritesTyped, history
  <1>3. ASSUME NEW e \in DOMAIN employees, RemoveEmployee(e)
        PROVE  Inv'
    <2>1. /\ employees' = [employees EXCEPT ![e] = FALSE]
          /\ UNCHANGED <<courses, records, certifying, history>>
      BY <1>3 DEF RemoveEmployee
    <2>2. /\ DOMAIN employees' = DOMAIN employees
          /\ employees' \in [DOMAIN employees' -> BOOLEAN]
      BY <1>1, <2>1 DEF TypeOK
    <2>. QED  BY <1>1, <2>1, <2>2 DEF Inv, TypeOK, IsRecord, WritesTyped, history
  <1>4. ASSUME NEW c \in Courses, NEW period \in Period, AddCourse(c, period)
        PROVE  Inv'
    <2>. DEFINE row == [is_active |-> TRUE, period |-> period]
    <2>1. /\ courses' = Insert(courses, c, row)
          /\ DOMAIN courses' = DOMAIN courses \cup {c}
          /\ UNCHANGED <<employees, records, certifying, history>>
      BY <1>4 DEF AddCourse, Insert
    <2>2. row \in Course
      BY DEF Course
    <2>3. courses' \in [DOMAIN courses' -> Course]
      <3>. HIDE DEF row
      <3>. QED  BY <1>1, <2>1, <2>2 DEF TypeOK, Insert
    <2>. QED  BY <1>1, <2>1, <2>3 DEF Inv, TypeOK, IsRecord, WritesTyped, history
  <1>5. ASSUME NEW c \in DOMAIN courses, NEW period \in Period, SetPeriod(c, period)
        PROVE  Inv'
    <2>1. /\ courses' = [courses EXCEPT ![c].period = period]
          /\ outdated' \subseteq outdated \cup DOMAIN records
          /\ UNCHANGED <<employees, records, certifying, put, raced>>
      BY <1>5 DEF SetPeriod
    <2>2. /\ DOMAIN courses' = DOMAIN courses
          /\ courses' \in [DOMAIN courses' -> Course]
      BY <1>1, <2>1 DEF TypeOK, Course
    <2>. QED  BY <1>1, <2>1, <2>2 DEF Inv, TypeOK, IsRecord, WritesTyped
  <1>6. ASSUME NEW c \in DOMAIN courses, RemoveCourse(c)
        PROVE  Inv'
    <2>1. /\ courses' = [courses EXCEPT ![c].is_active = FALSE]
          /\ UNCHANGED <<employees, records, certifying, history>>
      BY <1>6 DEF RemoveCourse
    <2>2. /\ DOMAIN courses' = DOMAIN courses
          /\ courses' \in [DOMAIN courses' -> Course]
      BY <1>1, <2>1 DEF TypeOK, Course
    <2>. QED  BY <1>1, <2>1, <2>2 DEF Inv, TypeOK, IsRecord, WritesTyped, history
  <1>7. ASSUME NEW rec \in Records, NEW c \in DOMAIN courses,
               NEW trainee \in DOMAIN employees \cup Users, AddRecord(rec, c, trainee)
        PROVE  Inv'
    <2>. DEFINE row == [course |-> c, trainee |-> trainee, status |-> "Assigned",
                        trained_date |-> Null, trained_by |-> Null,
                        trainee_acknowledgment |-> Null, expiry_date |-> Null]
    <2>1. /\ records' = Insert(records, rec, row)
          /\ DOMAIN records' = DOMAIN records \cup {rec}
          /\ \A x \in DOMAIN records' : records'[x] = IF x = rec THEN row ELSE records[x]
          /\ UNCHANGED <<employees, courses, certifying, history>>
      BY <1>7 DEF AddRecord, Insert
    <2>2. IsRecord(row)
      BY DEF IsRecord, IsDateOrNull, TrainingStatus
    <2>3. \A x \in DOMAIN records' : IsRecord(records'[x])
      <3>. HIDE DEF row
      <3>. QED  BY <1>1, <2>1, <2>2 DEF TypeOK
    <2>4. \A x \in DOMAIN records' : IsRecord(records[x])'
      BY <2>1, <2>3 DEF IsRecord
    <2>. QED  BY <1>1, <2>1, <2>4 DEF Inv, TypeOK, WritesTyped, history
  <1>8. ASSUME NEW rec \in DOMAIN records, NEW status \in TrainingStatus, SetStatus(rec, status)
        PROVE  Inv'
    <2>1. /\ records' = [records EXCEPT ![rec].status = status]
          /\ DOMAIN records' = DOMAIN records
          /\ put' \subseteq put \cup DOMAIN records
          /\ raced' \subseteq raced \cup DOMAIN records
          /\ UNCHANGED <<employees, courses, certifying, outdated>>
      BY <1>8 DEF SetStatus, Raced
    <2>2. \A x \in DOMAIN records : IsRecord(records[x])
      BY <1>1 DEF TypeOK
    <2>3. \A x \in DOMAIN records' : IsRecord(records[x])'
      BY <2>1, <2>2 DEF IsRecord
    <2>. QED  BY <1>1, <2>1, <2>3 DEF Inv, TypeOK, WritesTyped
  <1>9. ASSUME NEW rec \in DOMAIN records, NEW trainer \in Users,
               NEW text \in Texts, NEW when \in Days, Certify(rec, trainer, text, when)
        PROVE  Inv'
    <2>. DEFINE new == Certified(records[rec], courses[records[rec].course].period,
                                 trainer, text, when)
    <2>1. /\ records' = [records EXCEPT ![rec] = new]
          /\ DOMAIN records' = DOMAIN records
          /\ put' \subseteq put
          /\ outdated' \subseteq outdated
          /\ raced' \subseteq raced \cup DOMAIN records
          /\ UNCHANGED <<employees, courses, certifying>>
      BY <1>9 DEF Certify, Raced
    <2>2. IsRecord(new)
      BY <1>1, <1>9, CertifiedRow DEF Certify
    <2>3. \A x \in DOMAIN records : IsRecord(records[x])
      BY <1>1 DEF TypeOK
    <2>4. \A x \in DOMAIN records' : IsRecord(records[x])'
      <3>. HIDE DEF new
      <3>. QED  BY <2>1, <2>2, <2>3 DEF IsRecord
    <2>. QED  BY <1>1, <2>1, <2>4 DEF Inv, TypeOK, WritesTyped
  <1>10. ASSUME NEW rec \in DOMAIN records, RemoveRecord(rec)
         PROVE  Inv'
    <2>1. /\ records' = [x \in DOMAIN records \ {rec} |-> records[x]]
          /\ certifying' = {c \in certifying : c.record # rec}
          /\ put' \cup outdated' \cup raced' \subseteq put \cup outdated \cup raced
          /\ UNCHANGED <<employees, courses>>
      BY <1>10 DEF RemoveRecord
    <2>2. \A x \in DOMAIN records' : IsRecord(records[x])'
      BY <1>1, <2>1 DEF TypeOK, IsRecord
    <2>. QED  BY <1>1, <2>1, <2>2 DEF Inv, TypeOK, WritesTyped
  <1>11. ASSUME NEW request \in Requests, NEW rec \in DOMAIN records, NEW trainer \in Users,
                NEW text \in Texts, NEW when \in Days,
                BeginCertify(request, rec, trainer, text, when)
         PROVE  Inv'
    <2>. DEFINE new == Certified(records[rec], courses[records[rec].course].period,
                                 trainer, text, when)
                writes == [column \in {f \in Columns : new[f] # records[rec][f]} |-> new[column]]
                d == [request |-> request, record |-> rec, writes |-> writes]
    <2>1. /\ certifying' = certifying \cup {d}
          /\ Certifies(rec, when)
          /\ UNCHANGED <<employees, courses, records, history>>
      BY <1>11 DEF BeginCertify
    <2>2. /\ IsRecord(new) /\ new.status = "Trained"
          /\ new.trained_date = when /\ IsDate(when) /\ new.trained_by = trainer
          /\ new.trainee_acknowledgment = text
      BY <1>1, <2>1, CertifiedRow
    <2>3. /\ DOMAIN writes \subseteq Columns
          /\ \A f \in DOMAIN writes : writes[f] = new[f]
      OBVIOUS
    <2>4. DOMAIN d = {"request", "record", "writes"} /\ d.request = request
          /\ d.record = rec /\ d.writes = writes
      OBVIOUS
    <2>. HIDE DEF d, writes, new
    <2>5. TypeOK'
      BY <1>1, <2>1, <2>3, <2>4 DEF TypeOK, IsRecord, history
    <2>6. WritesTyped'
      BY <1>1, <2>1, <2>2, <2>3, <2>4 DEF WritesTyped, IsRecord
    <2>. QED  BY <2>5, <2>6 DEF Inv
  <1>12. ASSUME NEW c \in certifying, CommitCertify(c)
         PROVE  Inv'
    <2>1. /\ DOMAIN records' = DOMAIN records
          /\ c.record \in DOMAIN records
          /\ \A x \in DOMAIN records : IsRecord(records'[x])
      BY <1>1, <1>12, CommittedRow DEF TypeOK
    <2>2. /\ certifying' \subseteq certifying
          /\ raced' \subseteq raced \cup DOMAIN records
          /\ UNCHANGED <<employees, courses, put, outdated>>
      BY <1>12, <2>1 DEF CommitCertify, Raced
    <2>3. \A x \in DOMAIN records' : IsRecord(records[x])'
      BY <2>1, <2>2 DEF IsRecord
    <2>. QED  BY <1>1, <2>1, <2>2, <2>3 DEF Inv, TypeOK, WritesTyped
  <1>13. ASSUME NEW c \in certifying, AbandonCertify(c)
         PROVE  Inv'
    <2>1. certifying' \subseteq certifying /\ UNCHANGED <<employees, courses, records, history>>
      BY <1>13 DEF AbandonCertify
    <2>. QED  BY <1>1, <2>1 DEF Inv, TypeOK, IsRecord, WritesTyped, history
  <1>14. CASE UNCHANGED vars
    BY <1>1, <1>14 DEF Inv, TypeOK, IsRecord, WritesTyped, vars, history
  <1>. QED  BY <1>1, <1>2, <1>3, <1>4, <1>5, <1>6, <1>7, <1>8, <1>9, <1>10, <1>11, <1>12,
               <1>13, <1>14, Steps

LEMMA Invariance == Spec => []Inv
  BY InitInv, StepInv, PTL DEF Spec

\* Records refer to employees, users and courses that exist and hold dates of
\* the calendar, and what another process is about to write belongs to a record.
THEOREM TypeCorrect == Spec => []TypeOK
  <1>1. Inv => TypeOK
    BY DEF Inv
  <1>. QED  BY <1>1, Invariance, PTL

----------------------------------------------------------------------------
(* Evidence *)

EvidenceInv == TrainedHasEvidence /\ WritesEvidence

LEMMA InitEvidence == Init => EvidenceInv
  BY DEF Init, EvidenceInv, TrainedHasEvidence, WritesEvidence

\* Date, trainer and acknowledgment are written together and never taken back;
\* so a certification that has found none writes all three, and one that has
\* found them leaves all three, whatever it writes.
LEMMA StepEvidence == Inv /\ EvidenceInv /\ [Next]_vars => EvidenceInv'
  <1>. SUFFICES ASSUME Inv, EvidenceInv, [Next]_vars PROVE EvidenceInv'
    OBVIOUS
  <1>. DEFINE Evident(record) ==
                 /\ (record.trained_date = Null) = (record.trained_by = Null)
                 /\ (record.trained_date = Null) = (record.trainee_acknowledgment = Null)
                 /\ record.trained_date = Null => record.expiry_date = Null
  <1>1. /\ TypeOK /\ WritesTyped
        /\ \A rec \in DOMAIN records :
              /\ Evident(records[rec])
              /\ records[rec].status = "Trained" /\ rec \notin put =>
                    records[rec].trained_date # Null
        /\ WritesEvidence
    BY DEF Inv, EvidenceInv, TrainedHasEvidence
  <1>2. SUFFICES /\ \A rec \in DOMAIN records' :
                       /\ Evident(records'[rec])
                       /\ records'[rec].status = "Trained" /\ rec \notin put' =>
                             records'[rec].trained_date # Null
                 /\ WritesEvidence'
    BY DEF EvidenceInv, TrainedHasEvidence
  <1>3. \A rec \in DOMAIN records :
           DOMAIN records[rec] = {"course", "trainee", "status", "trained_date",
                                  "trained_by", "trainee_acknowledgment", "expiry_date"}
    BY <1>1 DEF TypeOK, IsRecord
  <1>4. CASE UNCHANGED <<records, put>> /\ certifying' \subseteq certifying
    BY <1>1, <1>4 DEF WritesEvidence
  <1>5. ASSUME NEW rec \in Records, NEW c \in DOMAIN courses,
               NEW trainee \in DOMAIN employees \cup Users, AddRecord(rec, c, trainee)
        PROVE  /\ \A x \in DOMAIN records' :
                     /\ Evident(records'[x])
                     /\ records'[x].status = "Trained" /\ x \notin put' =>
                           records'[x].trained_date # Null
               /\ WritesEvidence'
    <2>. DEFINE row == [course |-> c, trainee |-> trainee, status |-> "Assigned",
                        trained_date |-> Null, trained_by |-> Null,
                        trainee_acknowledgment |-> Null, expiry_date |-> Null]
    <2>1. /\ rec \notin DOMAIN records
          /\ DOMAIN records' = DOMAIN records \cup {rec}
          /\ \A x \in DOMAIN records' : records'[x] = IF x = rec THEN row ELSE records[x]
          /\ UNCHANGED <<put, certifying>>
      BY <1>5 DEF AddRecord, Insert, history
    <2>2. Evident(row) /\ row.status # "Trained"
      OBVIOUS
    <2>3. \A d \in certifying : d.record \in DOMAIN records
      BY <1>1 DEF TypeOK
    <2>. HIDE DEF row
    <2>. QED  BY <1>1, <2>1, <2>2, <2>3 DEF WritesEvidence
  <1>6. ASSUME NEW rec \in DOMAIN records, NEW status \in TrainingStatus, SetStatus(rec, status)
        PROVE  /\ \A x \in DOMAIN records' :
                     /\ Evident(records'[x])
                     /\ records'[x].status = "Trained" /\ x \notin put' =>
                           records'[x].trained_date # Null
               /\ WritesEvidence'
    <2>1. /\ records' = [records EXCEPT ![rec].status = status]
          /\ put' = IF status = "Trained" THEN put \cup {rec} ELSE put
          /\ certifying' = certifying
      BY <1>6 DEF SetStatus
    <2>2. \A x \in DOMAIN records :
             /\ records'[x].trained_date = records[x].trained_date
             /\ records'[x].trained_by = records[x].trained_by
             /\ records'[x].trainee_acknowledgment = records[x].trainee_acknowledgment
             /\ records'[x].expiry_date = records[x].expiry_date
             /\ records'[x].status = IF x = rec THEN status ELSE records[x].status
      BY <1>3, <2>1
    <2>3. \A d \in certifying : d.record \in DOMAIN records
      BY <1>1 DEF TypeOK
    <2>. QED  BY <1>1, <2>1, <2>2, <2>3 DEF WritesEvidence
  <1>7. ASSUME NEW rec \in DOMAIN records, NEW trainer \in Users,
               NEW text \in Texts, NEW when \in Days, Certify(rec, trainer, text, when)
        PROVE  /\ \A x \in DOMAIN records' :
                     /\ Evident(records'[x])
                     /\ records'[x].status = "Trained" /\ x \notin put' =>
                           records'[x].trained_date # Null
               /\ WritesEvidence'
    <2>. DEFINE new == Certified(records[rec], courses[records[rec].course].period,
                                 trainer, text, when)
    <2>1. /\ records' = [records EXCEPT ![rec] = new]
          /\ put' = put \ {rec}
          /\ certifying' = certifying
      BY <1>7 DEF Certify
    <2>2. new.trained_date # Null /\ new.trained_by # Null /\ new.trainee_acknowledgment # Null
      BY <1>1, <1>7, CertifiedRow DEF Certify
    <2>3. \A d \in certifying : d.record \in DOMAIN records
      BY <1>1 DEF TypeOK
    <2>. HIDE DEF new
    <2>. QED  BY <1>1, <2>1, <2>2, <2>3 DEF WritesEvidence
  <1>8. ASSUME NEW rec \in DOMAIN records, RemoveRecord(rec)
        PROVE  /\ \A x \in DOMAIN records' :
                     /\ Evident(records'[x])
                     /\ records'[x].status = "Trained" /\ x \notin put' =>
                           records'[x].trained_date # Null
               /\ WritesEvidence'
    <2>1. /\ records' = [x \in DOMAIN records \ {rec} |-> records[x]]
          /\ put' = put \ {rec}
          /\ certifying' = {d \in certifying : d.record # rec}
      BY <1>8 DEF RemoveRecord
    <2>2. \A d \in certifying : d.record \in DOMAIN records
      BY <1>1 DEF TypeOK
    <2>. QED  BY <1>1, <2>1, <2>2 DEF WritesEvidence
  <1>9. ASSUME NEW request \in Requests, NEW rec \in DOMAIN records, NEW trainer \in Users,
               NEW text \in Texts, NEW when \in Days,
               BeginCertify(request, rec, trainer, text, when)
        PROVE  /\ \A x \in DOMAIN records' :
                     /\ Evident(records'[x])
                     /\ records'[x].status = "Trained" /\ x \notin put' =>
                           records'[x].trained_date # Null
               /\ WritesEvidence'
    <2>. DEFINE new == Certified(records[rec], courses[records[rec].course].period,
                                 trainer, text, when)
                writes == [column \in {f \in Columns : new[f] # records[rec][f]} |-> new[column]]
                d == [request |-> request, record |-> rec, writes |-> writes]
    <2>1. /\ certifying' = certifying \cup {d}
          /\ UNCHANGED <<records, put>>
          /\ Certifies(rec, when)
      BY <1>9 DEF BeginCertify, history
    <2>2. new.trained_date # Null /\ new.trained_by # Null /\ new.trainee_acknowledgment # Null
      BY <1>1, <2>1, CertifiedRow
    <2>3. DOMAIN writes = {f \in Columns : new[f] # records[rec][f]}
      OBVIOUS
    <2>4. d.record = rec /\ d.writes = writes
      OBVIOUS
    <2>. HIDE DEF d, writes, new
    <2>5. records[rec].trained_date = Null => Evidence \subseteq DOMAIN writes
      <3>1. records[rec].trained_date = Null =>
               records[rec].trained_by = Null /\ records[rec].trainee_acknowledgment = Null
        BY <1>1
      <3>. QED  BY <2>2, <2>3, <3>1 DEF Columns, Evidence
    <2>. QED  BY <1>1, <2>1, <2>4, <2>5 DEF WritesEvidence
  <1>10. ASSUME NEW c \in certifying, CommitCertify(c)
         PROVE  /\ \A x \in DOMAIN records' :
                     /\ Evident(records'[x])
                     /\ records'[x].status = "Trained" /\ x \notin put' =>
                           records'[x].trained_date # Null
                /\ WritesEvidence'
    <2>. DEFINE rec == c.record
                new == Merged(records[rec], c.writes)
    <2>1. /\ rec \in DOMAIN records
          /\ DOMAIN records' = DOMAIN records
          /\ records'[rec] = new
          /\ \A x \in DOMAIN records : x # rec => records'[x] = records[x]
      BY <1>10, CommittedRow
    <2>2. put' = put /\ certifying' \subseteq certifying
      BY <1>10 DEF CommitCertify
    <2>3. new.trained_date # Null /\ new.trained_by # Null /\ new.trainee_acknowledgment # Null
      <3>1. DOMAIN records[rec] = {"course", "trainee", "status", "trained_date",
                                   "trained_by", "trainee_acknowledgment", "expiry_date"}
        BY <1>3, <2>1
      <3>2. /\ new.trained_date = IF "trained_date" \in DOMAIN c.writes
                                  THEN c.writes["trained_date"] ELSE records[rec].trained_date
            /\ new.trained_by = IF "trained_by" \in DOMAIN c.writes
                                THEN c.writes["trained_by"] ELSE records[rec].trained_by
            /\ new.trainee_acknowledgment =
                  IF "trainee_acknowledgment" \in DOMAIN c.writes
                  THEN c.writes["trainee_acknowledgment"]
                  ELSE records[rec].trainee_acknowledgment
        BY <3>1 DEF Merged
      <3>3. /\ "trained_date" \in DOMAIN c.writes => c.writes["trained_date"] # Null
            /\ "trained_by" \in DOMAIN c.writes => c.writes["trained_by"] # Null
            /\ "trainee_acknowledgment" \in DOMAIN c.writes =>
                  c.writes["trainee_acknowledgment"] # Null
        BY <1>1, NullAssumption DEF WritesTyped, Texts
      <3>4. records[rec].trained_date = Null =>
               Evidence \subseteq DOMAIN c.writes
        BY <1>1 DEF WritesEvidence
      <3>5. /\ (records[rec].trained_date = Null) = (records[rec].trained_by = Null)
            /\ (records[rec].trained_date = Null)
                  = (records[rec].trainee_acknowledgment = Null)
        BY <1>1, <2>1
      <3>. HIDE DEF rec, new
      <3>. QED  BY <3>2, <3>3, <3>4, <3>5 DEF Evidence
    <2>4. \A d \in certifying : d.record \in DOMAIN records
      BY <1>1 DEF TypeOK
    <2>. HIDE DEF rec, new
    <2>. QED  BY <1>1, <2>1, <2>2, <2>3, <2>4 DEF WritesEvidence
  <1>11. CASE Next
    <2>1. \A e : AddEmployee(e) \/ RemoveEmployee(e) =>
                    UNCHANGED <<records, put>> /\ certifying' \subseteq certifying
      BY DEF AddEmployee, RemoveEmployee, history
    <2>2. \A c, period : AddCourse(c, period) \/ SetPeriod(c, period) \/ RemoveCourse(c) =>
                    UNCHANGED <<records, put>> /\ certifying' \subseteq certifying
      BY DEF AddCourse, SetPeriod, RemoveCourse, history
    <2>3. \A c : AbandonCertify(c) =>
                    UNCHANGED <<records, put>> /\ certifying' \subseteq certifying
      BY DEF AbandonCertify, history
    <2>. HIDE DEF Evident
    <2>. QED  BY <1>1, <1>4, <1>5, <1>6, <1>7, <1>8, <1>9, <1>10, <1>11, <2>1, <2>2, <2>3, Steps
  <1>12. CASE UNCHANGED vars
    BY <1>4, <1>12 DEF vars, history
  <1>. QED  BY <1>11, <1>12

\* A record that is or was trained names the trainer and the date and has what
\* the trainee typed, however many processes certify it at a time, unless its
\* status alone was set; and no record has a part of the three or an expiry
\* without them.
THEOREM EvidenceComplete == Spec => []TrainedHasEvidence
  <1>1. EvidenceInv => TrainedHasEvidence
    BY DEF EvidenceInv
  <1>. QED  BY <1>1, InitEvidence, StepEvidence, Invariance, PTL DEF Spec

----------------------------------------------------------------------------
(* Expiry *)

PolicyInv == ExpiryFollowsPolicy /\ WritesFollowPolicy

LEMMA InitPolicy == Init => PolicyInv
  BY DEF Init, PolicyInv, ExpiryFollowsPolicy, WritesFollowPolicy

\* What the certifications of other processes will leave stays right unless the
\* record or the policy changes, and that is recorded.
LEMMA StepPolicy == Inv /\ PolicyInv /\ [Next]_vars => PolicyInv'
  <1>. SUFFICES ASSUME Inv, PolicyInv, [Next]_vars PROVE PolicyInv'
    OBVIOUS
  <1>. DEFINE Exempt == outdated \cup raced
              ShowsPolicy(rec) ==
                 rec \notin Exempt /\ records[rec].trained_date # Null =>
                    Follows(records[rec], PeriodOf(rec))
              WillShowPolicy(c) ==
                 c.record \notin Exempt =>
                    Follows(Merged(records[c.record], c.writes), PeriodOf(c.record))
              Goal == /\ \A rec \in DOMAIN records' : ShowsPolicy(rec)'
                      /\ \A c \in certifying' : WillShowPolicy(c)'
  <1>1. /\ TypeOK /\ WritesTyped
        /\ \A rec \in DOMAIN records : ShowsPolicy(rec)
        /\ \A c \in certifying : c.record \in DOMAIN records /\ WillShowPolicy(c)
    BY DEF Inv, PolicyInv, ExpiryFollowsPolicy, WritesFollowPolicy, TypeOK, Follows, PeriodOf
  <1>2. SUFFICES Goal
    BY DEF PolicyInv, ExpiryFollowsPolicy, WritesFollowPolicy, Follows, PeriodOf
  <1>3. \A rec \in DOMAIN records :
           /\ DOMAIN records[rec] = {"course", "trainee", "status", "trained_date",
                                     "trained_by", "trainee_acknowledgment", "expiry_date"}
           /\ records[rec].course \in DOMAIN courses
    BY <1>1 DEF TypeOK, IsRecord
  \* A step after which the records that are not exempt and their periods are as before.
  <1>4. ASSUME DOMAIN records' \subseteq DOMAIN records,
               certifying' \subseteq certifying,
               \A c \in certifying' : c.record \in DOMAIN records',
               Exempt \cap DOMAIN records' \subseteq Exempt',
               \A rec \in DOMAIN records' \ Exempt' :
                  records'[rec] = records[rec] /\ PeriodOf(rec)' = PeriodOf(rec)
        PROVE  Goal
    <2>1. ASSUME NEW rec \in DOMAIN records'
          PROVE  ShowsPolicy(rec)'
      BY <1>1, <1>4, <2>1
    <2>2. ASSUME NEW c \in certifying'
          PROVE  WillShowPolicy(c)'
      BY <1>1, <1>4, <2>2
    <2>. QED  BY <2>1, <2>2
  <1>5. ASSUME NEW c \in DOMAIN courses, NEW period \in Period, SetPeriod(c, period)
        PROVE  Goal
    <2>1. /\ courses' = [courses EXCEPT ![c].period = period]
          /\ UNCHANGED <<records, certifying, raced>>
          /\ outdated' = IF period = courses[c].period THEN outdated
                         ELSE outdated \cup {rec \in DOMAIN records : records[rec].course = c}
      BY <1>5 DEF SetPeriod
    <2>2. courses[c] \in Course
      BY <1>1 DEF TypeOK
    <2>3. \A x \in DOMAIN courses :
             courses'[x].period = IF x = c THEN period ELSE courses[x].period
      BY <2>1, <2>2 DEF Course
    <2>4. \A rec \in DOMAIN records \ outdated' : PeriodOf(rec)' = PeriodOf(rec)
      BY <1>3, <2>1, <2>3 DEF PeriodOf
    <2>. QED  BY <1>1, <1>4, <2>1, <2>4
  <1>6. ASSUME NEW rec \in Records, NEW c \in DOMAIN courses,
               NEW trainee \in DOMAIN employees \cup Users, AddRecord(rec, c, trainee)
        PROVE  Goal
    <2>. DEFINE row == [course |-> c, trainee |-> trainee, status |-> "Assigned",
                        trained_date |-> Null, trained_by |-> Null,
                        trainee_acknowledgment |-> Null, expiry_date |-> Null]
    <2>1. /\ rec \notin DOMAIN records
          /\ DOMAIN records' = DOMAIN records \cup {rec}
          /\ \A x \in DOMAIN records' : records'[x] = IF x = rec THEN row ELSE records[x]
          /\ UNCHANGED <<courses, certifying, outdated, raced>>
      BY <1>6 DEF AddRecord, Insert, history
    <2>2. row.trained_date = Null
      OBVIOUS
    <2>3. \A x \in DOMAIN records : records'[x] = records[x] /\ PeriodOf(x)' = PeriodOf(x)
      BY <2>1 DEF PeriodOf
    <2>. HIDE DEF row
    <2>4. ASSUME NEW x \in DOMAIN records'
          PROVE  ShowsPolicy(x)'
      BY <1>1, <2>1, <2>2, <2>3, <2>4
    <2>5. ASSUME NEW d \in certifying'
          PROVE  WillShowPolicy(d)'
      BY <1>1, <2>1, <2>3, <2>5
    <2>. QED  BY <2>4, <2>5
  <1>7. ASSUME NEW rec \in DOMAIN records, NEW status \in TrainingStatus, SetStatus(rec, status)
        PROVE  Goal
    <2>1. /\ records' = [records EXCEPT ![rec].status = status]
          /\ raced' = IF \E c \in certifying : c.record = rec THEN raced \cup {rec} ELSE raced
          /\ UNCHANGED <<courses, certifying, outdated>>
      BY <1>7 DEF SetStatus, Raced
    <2>2. \A x \in DOMAIN records :
             /\ records'[x].course = records[x].course
             /\ records'[x].trained_date = records[x].trained_date
             /\ records'[x].expiry_date = records[x].expiry_date
             /\ x # rec => records'[x] = records[x]
      BY <1>3, <2>1
    <2>3. \A x \in DOMAIN records : PeriodOf(x)' = PeriodOf(x)
      BY <2>1, <2>2 DEF PeriodOf
    <2>4. ASSUME NEW x \in DOMAIN records'
          PROVE  ShowsPolicy(x)'
      <3>1. x \in DOMAIN records
        BY <2>1
      <3>2. Follows(records[x], PeriodOf(x)) => Follows(records'[x], PeriodOf(x))
        BY <2>2, <3>1 DEF Follows
      <3>. QED  BY <1>1, <2>1, <2>2, <2>3, <3>1, <3>2
    <2>5. ASSUME NEW d \in certifying'
          PROVE  WillShowPolicy(d)'
      BY <1>1, <2>1, <2>2, <2>3, <2>5
    <2>. QED  BY <2>4, <2>5
  <1>8. ASSUME NEW rec \in DOMAIN records, NEW trainer \in Users,
               NEW text \in Texts, NEW when \in Days, Certify(rec, trainer, text, when)
        PROVE  Goal
    <2>. DEFINE new == Certified(records[rec], courses[records[rec].course].period,
                                 trainer, text, when)
    <2>1. /\ records' = [records EXCEPT ![rec] = new]
          /\ outdated' = outdated \ {rec}
          /\ raced' = IF \E c \in certifying : c.record = rec THEN raced \cup {rec} ELSE raced
          /\ UNCHANGED <<courses, certifying>>
      BY <1>8 DEF Certify, Raced
    <2>2. new.course = records[rec].course /\ Follows(new, PeriodOf(rec))
      BY <1>1, <1>8, CertifiedRow DEF Certify
    <2>. HIDE DEF new
    <2>3. /\ records'[rec] = new
          /\ \A x \in DOMAIN records : x # rec => records'[x] = records[x]
          /\ \A x \in DOMAIN records : PeriodOf(x)' = PeriodOf(x)
      BY <2>1, <2>2 DEF PeriodOf
    <2>4. ASSUME NEW x \in DOMAIN records'
          PROVE  ShowsPolicy(x)'
      BY <1>1, <2>1, <2>2, <2>3, <2>4
    <2>5. ASSUME NEW d \in certifying'
          PROVE  WillShowPolicy(d)'
      BY <1>1, <2>1, <2>3, <2>5
    <2>. QED  BY <2>4, <2>5
  <1>9. ASSUME NEW rec \in DOMAIN records, RemoveRecord(rec)
        PROVE  Goal
    <2>1. /\ records' = [x \in DOMAIN records \ {rec} |-> records[x]]
          /\ certifying' = {c \in certifying : c.record # rec}
          /\ outdated' = outdated \ {rec} /\ raced' = raced \ {rec}
          /\ courses' = courses
      BY <1>9 DEF RemoveRecord
    <2>2. \A x \in DOMAIN records' : records'[x] = records[x] /\ PeriodOf(x)' = PeriodOf(x)
      BY <2>1 DEF PeriodOf
    <2>. QED  BY <1>1, <1>4, <2>1, <2>2
  <1>10. ASSUME NEW request \in Requests, NEW rec \in DOMAIN records, NEW trainer \in Users,
                NEW text \in Texts, NEW when \in Days,
                BeginCertify(request, rec, trainer, text, when)
         PROVE  Goal
    <2>. DEFINE new == Certified(records[rec], courses[records[rec].course].period,
                                 trainer, text, when)
                writes == [column \in {f \in Columns : new[f] # records[rec][f]} |-> new[column]]
                d == [request |-> request, record |-> rec, writes |-> writes]
                merged == Merged(records[rec], writes)
    <2>1. /\ certifying' = certifying \cup {d}
          /\ UNCHANGED <<courses, records, outdated, raced>>
          /\ Certifies(rec, when)
      BY <1>10 DEF BeginCertify, history
    <2>2. Follows(new, PeriodOf(rec))
      BY <1>1, <2>1, CertifiedRow
    <2>3. /\ merged.trained_date = new.trained_date
          /\ merged.expiry_date = new.expiry_date
      BY <1>1, <2>1, WritesOf
    <2>4. d.record = rec /\ d.writes = writes
      OBVIOUS
    <2>5. \A x : PeriodOf(x)' = PeriodOf(x)
      BY <2>1 DEF PeriodOf
    <2>6. merged = Merged(records[rec], writes)
      OBVIOUS
    <2>. HIDE DEF d, writes, new, merged
    <2>7. Follows(Merged(records[d.record], d.writes), PeriodOf(d.record))
      BY <2>2, <2>3, <2>4, <2>6 DEF Follows
    <2>8. ASSUME NEW x \in DOMAIN records'
          PROVE  ShowsPolicy(x)'
      BY <1>1, <2>1, <2>5, <2>8
    <2>9. ASSUME NEW c \in certifying'
          PROVE  WillShowPolicy(c)'
      BY <1>1, <2>1, <2>5, <2>7, <2>9
    <2>. QED  BY <2>8, <2>9
  <1>11. ASSUME NEW c \in certifying, CommitCertify(c)
         PROVE  Goal
    <2>. DEFINE rec == c.record
                new == Merged(records[rec], c.writes)
    <2>1. /\ rec \in DOMAIN records
          /\ DOMAIN records' = DOMAIN records
          /\ records'[rec] = new
          /\ \A x \in DOMAIN records : x # rec => records'[x] = records[x]
      BY <1>11, CommittedRow
    <2>2. /\ certifying' = certifying \ {c}
          /\ raced' = IF \E d \in certifying \ {c} : d.record = rec THEN raced \cup {rec}
                                                                   ELSE raced
          /\ UNCHANGED <<courses, outdated>>
      BY <1>11 DEF CommitCertify, Raced
    <2>3. new.course = records[rec].course
      <3>1. "course" \notin DOMAIN c.writes
        BY <1>1 DEF TypeOK, Columns
      <3>. QED  BY <1>3, <2>1, <3>1 DEF Merged
    <2>4. rec \notin Exempt => Follows(new, PeriodOf(rec))
      BY <1>1
    <2>. HIDE DEF rec, new
    <2>5. \A x \in DOMAIN records : PeriodOf(x)' = PeriodOf(x)
      BY <2>1, <2>2, <2>3 DEF PeriodOf
    <2>6. ASSUME NEW x \in DOMAIN records'
          PROVE  ShowsPolicy(x)'
      BY <1>1, <2>1, <2>2, <2>4, <2>5, <2>6
    <2>7. ASSUME NEW d \in certifying'
          PROVE  WillShowPolicy(d)'
      <3>1. d.record \in DOMAIN records /\ (d.record = rec => d.record \in Exempt')
        BY <1>1, <2>2, <2>7
      <3>. QED  BY <1>1, <2>1, <2>2, <2>5, <2>7, <3>1
    <2>. QED  BY <2>6, <2>7
  <1>12. ASSUME UNCHANGED <<records, outdated, raced>>, certifying' \subseteq certifying,
                \A c \in DOMAIN courses : courses'[c].period = courses[c].period
         PROVE  Goal
    <2>1. \A rec \in DOMAIN records : PeriodOf(rec)' = PeriodOf(rec)
      BY <1>3, <1>12 DEF PeriodOf
    <2>. QED  BY <1>1, <1>4, <1>12, <2>1
  <1>13. ASSUME NEW e, AddEmployee(e) \/ RemoveEmployee(e)
         PROVE  Goal
    BY <1>12, <1>13 DEF AddEmployee, RemoveEmployee, history
  <1>14. ASSUME NEW c \in Courses, NEW period \in Period, AddCourse(c, period)
         PROVE  Goal
    BY <1>12, <1>14 DEF AddCourse, Insert, history
  <1>15. ASSUME NEW c \in DOMAIN courses, RemoveCourse(c)
         PROVE  Goal
    <2>1. /\ courses' = [courses EXCEPT ![c].is_active = FALSE]
          /\ UNCHANGED <<records, certifying, outdated, raced>>
      BY <1>15 DEF RemoveCourse, history
    <2>2. courses[c] \in Course
      BY <1>1 DEF TypeOK
    <2>3. \A x \in DOMAIN courses : courses'[x].period = courses[x].period
      BY <2>1, <2>2 DEF Course
    <2>. QED  BY <1>12, <2>1, <2>3
  <1>16. ASSUME NEW c, AbandonCertify(c)
         PROVE  Goal
    BY <1>12, <1>16 DEF AbandonCertify, history
  <1>17. CASE UNCHANGED vars
    BY <1>12, <1>17 DEF vars, history
  <1>. HIDE DEF Goal
  <1>. QED  BY <1>1, <1>5, <1>6, <1>7, <1>8, <1>9, <1>10, <1>11, <1>13, <1>14, <1>15, <1>16,
               <1>17, Steps

\* A certificate expires as many months after the training as its course asks
\* for, clamped to the end of the month, or never, unless the course has changed
\* since or two processes have worked on the record at a time.
THEOREM ExpiryByPolicy == Spec => []ExpiryFollowsPolicy
  <1>1. PolicyInv => ExpiryFollowsPolicy
    BY DEF PolicyInv
  <1>. QED  BY <1>1, InitPolicy, StepPolicy, Invariance, PTL DEF Spec

----------------------------------------------------------------------------
(* The two interfaces *)

\* A step of the browser's handlers is one of the API's, or sets a period that
\* only the form accepts.
LEMMA PageStepIsApiStep ==
    ASSUME TypeOK, PageStep, vars' # vars
    PROVE  ApiStep \/ FormPeriodSet
  <1>. USE DEF PageStep, ApiStep, EmployeeCreateSubmit, EmployeeDelete, CourseDelete,
               TrainingAssign, TrainingRecordStatus, TrainingCertify, TrainingRecordDelete,
               CreateEmployee, DeleteEmployee, DeleteCourse, AssignRecord, UpdateRecord,
               CertifyRecord, DeleteRecord, EmployeeOr404, CourseOr404, RecordOr404,
               EmployeeInOrg, CourseInOrg, RecordInOrg, ValidTrainee
  <1>1. ASSUME NEW e \in Employees, EmployeeCreateSubmit(e) \/ EmployeeDelete(e)
        PROVE  ApiStep
    BY <1>1
  <1>2. ASSUME NEW c \in Courses, CourseDelete(c)
        PROVE  ApiStep
    BY <1>2
  <1>3. ASSUME NEW c \in Courses, NEW period \in Period, CourseCreateSubmit(c, period)
        PROVE  ApiStep \/ FormPeriodSet
    <2>1. AddCourse(c, period)
      BY <1>3 DEF CourseCreateSubmit
    <2>2. CASE period \in ApiPeriods \cup {Null}
      BY <2>1, <2>2 DEF CreateCourse
    <2>3. c \notin DOMAIN courses /\ c \in DOMAIN courses' /\ courses'[c].period = period
      BY <2>1 DEF AddCourse, Insert
    <2>. QED  BY <2>2, <2>3 DEF FormPeriodSet
  <1>4. ASSUME NEW c \in Courses, NEW period \in Period, CourseEditSubmit(c, period)
        PROVE  ApiStep \/ FormPeriodSet
    <2>1. CourseInOrg(c) /\ SetPeriod(c, period)
      BY <1>4 DEF CourseEditSubmit
    <2>2. CASE period \in ApiPeriods \cup {Null}
      BY <2>1, <2>2 DEF UpdateCourse
    <2>3. c \in DOMAIN courses /\ courses[c] \in Course /\ courses \in [DOMAIN courses -> Course]
      BY <2>1 DEF TypeOK
    <2>4. c \in DOMAIN courses' /\ courses'[c].period = period
      BY <2>1, <2>3 DEF SetPeriod, Course
    \* A form that is saved as it was changes nothing.
    <2>5. period # courses[c].period
      <3>1. SUFFICES ASSUME period = courses[c].period PROVE FALSE
        OBVIOUS
      <3>2. courses' = courses
        BY <2>1, <2>3, <3>1 DEF SetPeriod, Course
      <3>3. UNCHANGED vars
        BY <2>1, <3>1, <3>2 DEF SetPeriod, vars, history
      <3>. QED  BY <3>3
    <2>. QED  BY <2>2, <2>4, <2>5 DEF FormPeriodSet
  <1>5. ASSUME NEW rec \in Records,
               \/ TrainingRecordDelete(rec)
               \/ \E c \in Courses, trainee \in Employees \cup Users :
                     TrainingAssign(rec, c, trainee)
               \/ \E status \in TrainingStatus : TrainingRecordStatus(rec, status)
               \/ \E trainer \in Users, text \in Texts, when \in Days :
                     TrainingCertify(rec, trainer, text, when)
        PROVE  ApiStep
    BY <1>5
  <1>. QED  BY <1>1, <1>2, <1>3, <1>4, <1>5

\* A step of the API's handlers is one of the browser's, or accepts a blank
\* acknowledgment.
LEMMA ApiStepIsPageStep ==
    ASSUME ApiStep
    PROVE  PageStep \/ BlankAccepted
  <1>. USE DEF PageStep, ApiStep, EmployeeCreateSubmit, EmployeeDelete, CourseDelete,
               TrainingAssign, TrainingRecordStatus, TrainingCertify, TrainingRecordDelete,
               CreateEmployee, DeleteEmployee, DeleteCourse, AssignRecord, UpdateRecord,
               CertifyRecord, DeleteRecord, EmployeeOr404, CourseOr404, RecordOr404,
               EmployeeInOrg, CourseInOrg, RecordInOrg, ValidTrainee
  <1>1. ASSUME NEW e \in Employees, CreateEmployee(e) \/ DeleteEmployee(e)
        PROVE  PageStep
    BY <1>1
  <1>2. ASSUME NEW c \in Courses,
               \/ DeleteCourse(c)
               \/ \E period \in Period : CreateCourse(c, period) \/ UpdateCourse(c, period)
        PROVE  PageStep
    BY <1>2, PeriodAssumption
    DEF CreateCourse, UpdateCourse, CourseCreateSubmit, CourseEditSubmit
  <1>3. ASSUME NEW rec \in Records,
               \/ DeleteRecord(rec)
               \/ \E c \in Courses, trainee \in Employees \cup Users : AssignRecord(rec, c, trainee)
               \/ \E status \in TrainingStatus : UpdateRecord(rec, status)
        PROVE  PageStep
    BY <1>3
  <1>4. ASSUME NEW rec \in Records, NEW trainer \in Users, NEW text \in Texts, NEW when \in Days,
               CertifyRecord(rec, trainer, text, when)
        PROVE  PageStep \/ BlankAccepted
    <2>1. CASE text = Blank
      BY <1>4, <2>1 DEF BlankAccepted
    <2>2. CASE text # Blank
      BY <1>4, <2>2
    <2>. QED  BY <2>1, <2>2
  <1>. QED  BY <1>1, <1>2, <1>3, <1>4

\* The two interfaces do the same to the tables, but for the periods that only
\* the form accepts and the blank acknowledgments that only the API does.
THEOREM SurfacesNeverDrift == Spec => NoDrift
  <1>1. TypeOK /\ [Next]_vars
           => [/\ PageStep => ApiStep \/ FormPeriodSet
               /\ ApiStep => PageStep \/ BlankAccepted]_vars
    BY PageStepIsApiStep, ApiStepIsPageStep
  <1>. QED  BY <1>1, TypeCorrect, PTL DEF Spec, NoDrift

----------------------------------------------------------------------------
(* A certification is written as a whole *)

\* Rows are records.
Rows == \A rec \in DOMAIN records : records[rec] = [f \in DOMAIN records[rec] |-> records[rec][f]]

\* What certifying the record as it is, under the policy as it is, writes.
Signs(c, trainer, text, when) ==
    LET old == records[c.record]
        new == Certified(old, PeriodOf(c.record), trainer, text, when)
    IN  /\ Certifies(c.record, when)
        /\ DOMAIN c.writes = {f \in Columns : new[f] # old[f]}
        /\ \A f \in DOMAIN c.writes : c.writes[f] = new[f]

\* The columns that a certification under way writes are still those that differ.
WritesWhole ==
    \A c \in certifying :
        c.record \notin raced \cup outdated =>
            \E trainer \in Users, text \in Texts, when \in Days : Signs(c, trainer, text, when)

LEMMA StepRows == Inv /\ Rows /\ [Next]_vars => Rows'
  <1>. SUFFICES ASSUME Inv, Rows, [Next]_vars  PROVE Rows'
    OBVIOUS
  <1>. USE DEF Rows
  <1>1. CASE UNCHANGED records
    BY <1>1
  <1>2. ASSUME NEW rec \in Records, NEW c \in DOMAIN courses,
               NEW trainee \in DOMAIN employees \cup Users, AddRecord(rec, c, trainee)
        PROVE  Rows'
    <2>. DEFINE row == [course |-> c, trainee |-> trainee, status |-> "Assigned",
                        trained_date |-> Null, trained_by |-> Null,
                        trainee_acknowledgment |-> Null, expiry_date |-> Null]
    <2>1. row = [f \in DOMAIN row |-> row[f]]
      OBVIOUS
    <2>2. records' = Insert(records, rec, row)
      BY <1>2 DEF AddRecord
    <2>. HIDE DEF row
    <2>3. /\ DOMAIN records' = DOMAIN records \cup {rec}
          /\ \A x \in DOMAIN records' : records'[x] = IF x = rec THEN row ELSE records[x]
      BY <2>2 DEF Insert
    <2>. QED  BY <2>1, <2>3
  <1>3. ASSUME NEW rec \in DOMAIN records, NEW row,
               records' = [records EXCEPT ![rec] = row], row = [f \in DOMAIN row |-> row[f]]
        PROVE  Rows'
    BY <1>3
  <1>4. ASSUME NEW rec \in DOMAIN records, NEW status \in TrainingStatus, SetStatus(rec, status)
        PROVE  Rows'
    <2>. DEFINE row == [records[rec] EXCEPT !.status = status]
    <2>1. records' = [records EXCEPT ![rec] = row]
      BY <1>4 DEF SetStatus
    <2>2. row = [f \in DOMAIN row |-> row[f]]
      BY records[rec] = [f \in DOMAIN records[rec] |-> records[rec][f]]
    <2>. HIDE DEF row
    <2>. QED  BY <1>3, <2>1, <2>2
  <1>5. ASSUME NEW rec \in DOMAIN records, NEW trainer \in Users,
               NEW text \in Texts, NEW when \in Days, Certify(rec, trainer, text, when)
        PROVE  Rows'
    <2>. DEFINE row == Certified(records[rec], courses[records[rec].course].period,
                                 trainer, text, when)
    <2>1. records' = [records EXCEPT ![rec] = row]
      BY <1>5 DEF Certify
    <2>2. row = [f \in DOMAIN row |-> row[f]]
      BY records[rec] = [f \in DOMAIN records[rec] |-> records[rec][f]] DEF Certified
    <2>. HIDE DEF row
    <2>. QED  BY <1>3, <2>1, <2>2
  <1>6. ASSUME NEW rec \in DOMAIN records, RemoveRecord(rec)
        PROVE  Rows'
    BY <1>6 DEF RemoveRecord
  <1>7. ASSUME NEW c \in certifying, CommitCertify(c)
        PROVE  Rows'
    <2>. DEFINE row == Merged(records[c.record], c.writes)
    <2>1. records' = [records EXCEPT ![c.record] = row] /\ c.record \in DOMAIN records
      BY <1>7 DEF CommitCertify, Merged, Inv, TypeOK
    <2>2. row = [f \in DOMAIN row |-> row[f]]
      BY DEF Merged
    <2>. HIDE DEF row
    <2>. QED  BY <1>3, <2>1, <2>2
  <1>8. CASE Next
    <2>1. \/ \E e \in Employees : AddEmployee(e)
          \/ \E e \in DOMAIN employees : RemoveEmployee(e)
          \/ \E c \in Courses, period \in Period : AddCourse(c, period)
          \/ \E c \in DOMAIN courses, period \in Period : SetPeriod(c, period)
          \/ \E c \in DOMAIN courses : RemoveCourse(c)
          \/ \E request \in Requests, rec \in DOMAIN records, trainer \in Users,
                text \in Texts, when \in Days :
                BeginCertify(request, rec, trainer, text, when)
          \/ \E c \in certifying : AbandonCertify(c)
          => UNCHANGED records
      BY DEF AddEmployee, RemoveEmployee, AddCourse, SetPeriod, RemoveCourse, BeginCertify,
             AbandonCertify
    <2>. QED  BY <1>1, <1>2, <1>4, <1>5, <1>6, <1>7, <1>8, <2>1, Steps DEF Inv
  <1>. QED  BY <1>1, <1>8 DEF vars

\* A certification under way stays what it was, or counts as overtaken.
Kept(c) ==
    /\ c \in certifying
    /\ \/ c.record \in raced' \cup outdated'
       \/ /\ c.record \notin raced \cup outdated
          /\ records'[c.record] = records[c.record]
          /\ PeriodOf(c.record)' = PeriodOf(c.record)

LEMMA KeptWhole ==
    ASSUME WritesWhole, NEW c, Kept(c), c.record \notin raced' \cup outdated'
    PROVE  \E trainer \in Users, text \in Texts, when \in Days : Signs(c, trainer, text, when)'
  <1>1. PICK trainer \in Users, text \in Texts, when \in Days : Signs(c, trainer, text, when)
    BY DEF Kept, WritesWhole
  <1>2. records'[c.record] = records[c.record] /\ PeriodOf(c.record)' = PeriodOf(c.record)
    BY DEF Kept
  <1>3. Certifies(c.record, when)'
    BY <1>1, <1>2 DEF Signs, Certifies, PeriodOf
  <1>4. Signs(c, trainer, text, when)'
    BY <1>1, <1>2, <1>3 DEF Signs
  <1>. QED  BY <1>4

LEMMA StepWhole == Inv /\ WritesWhole /\ [Next]_vars => WritesWhole'
  <1>. SUFFICES ASSUME Inv, WritesWhole, [Next]_vars  PROVE WritesWhole'
    OBVIOUS
  <1>0. \A c \in certifying : /\ c.record \in DOMAIN records
                              /\ records[c.record].course \in DOMAIN courses
    BY DEF Inv, TypeOK, IsRecord
  <1>1. ASSUME \A c \in certifying' : Kept(c)
        PROVE  WritesWhole'
    BY <1>1, KeptWhole DEF WritesWhole
  <1>2. CASE UNCHANGED <<courses, records, certifying, raced, outdated>>
    BY <1>1, <1>2 DEF Kept, PeriodOf
  <1>3. ASSUME NEW c \in Courses, NEW period \in Period, AddCourse(c, period)
        PROVE  WritesWhole'
    <2>1. /\ \A x \in DOMAIN courses : courses'[x] = courses[x]
          /\ UNCHANGED <<records, certifying, raced, outdated>>
      BY <1>3 DEF AddCourse, Insert, history
    <2>. QED  BY <1>0, <1>1, <2>1 DEF Kept, PeriodOf
  <1>4. ASSUME NEW c \in DOMAIN courses, NEW period \in Period, SetPeriod(c, period)
        PROVE  WritesWhole'
    <2>1. /\ \A x \in DOMAIN courses :
                x # c \/ period = courses[c].period => courses'[x].period = courses[x].period
          /\ period # courses[c].period =>
                outdated' = outdated \cup {rec \in DOMAIN records : records[rec].course = c}
          /\ outdated \subseteq outdated'
          /\ UNCHANGED <<records, certifying, raced>>
      BY <1>4 DEF SetPeriod, Inv, TypeOK, Course
    <2>. QED  BY <1>0, <1>1, <2>1 DEF Kept, PeriodOf
  <1>5. ASSUME NEW c \in DOMAIN courses, RemoveCourse(c)
        PROVE  WritesWhole'
    <2>1. /\ \A x \in DOMAIN courses : courses'[x].period = courses[x].period
          /\ UNCHANGED <<records, certifying, raced, outdated>>
      BY <1>5 DEF RemoveCourse, Inv, TypeOK, Course, history
    <2>. QED  BY <1>0, <1>1, <2>1 DEF Kept, PeriodOf
  <1>6. ASSUME NEW rec \in Records, NEW c \in DOMAIN courses,
               NEW trainee \in DOMAIN employees \cup Users, AddRecord(rec, c, trainee)
        PROVE  WritesWhole'
    <2>1. /\ \A x \in DOMAIN records : records'[x] = records[x]
          /\ UNCHANGED <<courses, certifying, raced, outdated>>
      BY <1>6 DEF AddRecord, Insert, history
    <2>. QED  BY <1>0, <1>1, <2>1 DEF Kept, PeriodOf
  \* Another handler writes the record while it is certified.
  <1>7. ASSUME NEW rec \in DOMAIN records, NEW others \in SUBSET certifying,
               \A x \in DOMAIN records : x # rec => records'[x] = records[x],
               certifying' = others, raced' = Raced(rec, others), courses' = courses,
               outdated \ {rec} \subseteq outdated'
        PROVE  WritesWhole'
    <2>1. raced \subseteq raced' /\ \A c \in certifying' : c.record = rec => rec \in raced'
      BY <1>7 DEF Raced
    <2>. QED  BY <1>0, <1>1, <1>7, <2>1 DEF Kept, PeriodOf
  <1>8. ASSUME NEW rec \in DOMAIN records, NEW status \in TrainingStatus, SetStatus(rec, status)
        PROVE  WritesWhole'
    <2>1. /\ \A x \in DOMAIN records : x # rec => records'[x] = records[x]
          /\ raced' = Raced(rec, certifying) /\ UNCHANGED <<courses, certifying, outdated>>
      BY <1>8 DEF SetStatus
    <2>. QED  BY <1>7, <2>1
  <1>9. ASSUME NEW rec \in DOMAIN records, NEW trainer \in Users,
               NEW text \in Texts, NEW when \in Days, Certify(rec, trainer, text, when)
        PROVE  WritesWhole'
    <2>1. /\ \A x \in DOMAIN records : x # rec => records'[x] = records[x]
          /\ raced' = Raced(rec, certifying) /\ outdated' = outdated \ {rec}
          /\ UNCHANGED <<courses, certifying>>
      BY <1>9 DEF Certify
    <2>. QED  BY <1>7, <2>1
  <1>10. ASSUME NEW rec \in DOMAIN records, RemoveRecord(rec)
         PROVE  WritesWhole'
    <2>1. /\ \A x \in DOMAIN records : x # rec => records'[x] = records[x]
          /\ certifying' = {c \in certifying : c.record # rec}
          /\ outdated' = outdated \ {rec} /\ raced' = raced \ {rec} /\ courses' = courses
      BY <1>10 DEF RemoveRecord
    <2>. QED  BY <1>0, <1>1, <2>1 DEF Kept, PeriodOf
  <1>11. ASSUME NEW request \in Requests, NEW rec \in DOMAIN records, NEW trainer \in Users,
                NEW text \in Texts, NEW when \in Days,
                BeginCertify(request, rec, trainer, text, when)
         PROVE  WritesWhole'
    <2>. DEFINE new    == Certified(records[rec], PeriodOf(rec), trainer, text, when)
                writes == [column \in {f \in Columns : new[f] # records[rec][f]} |-> new[column]]
                begun  == [request |-> request, record |-> rec, writes |-> writes]
    <2>1. /\ Certifies(rec, when)
          /\ certifying' = certifying \cup {begun}
          /\ UNCHANGED <<courses, records, raced, outdated>>
      BY <1>11 DEF BeginCertify, PeriodOf, history
    <2>2. /\ begun.record = rec
          /\ DOMAIN begun.writes = {f \in Columns : new[f] # records[rec][f]}
          /\ \A f \in DOMAIN begun.writes : begun.writes[f] = new[f]
      OBVIOUS
    <2>3. Signs(begun, trainer, text, when)
      BY <2>1, <2>2 DEF Signs
    <2>. HIDE DEF begun
    <2>4. ASSUME NEW c, Signs(c, trainer, text, when)
          PROVE  Signs(c, trainer, text, when)'
      BY <2>1, <2>4 DEF Signs, Certifies, PeriodOf
    <2>5. \A c \in certifying : Kept(c) \/ c.record \in raced \cup outdated
      BY <2>1 DEF Kept, PeriodOf
    <2>6. ASSUME NEW c \in certifying', c.record \notin raced' \cup outdated'
          PROVE  \E t \in Users, x \in Texts, w \in Days : Signs(c, t, x, w)'
      <3>1. CASE c = begun
        BY <2>3, <2>4, <3>1
      <3>2. CASE c \in certifying
        BY <2>1, <2>5, <2>6, <3>2, KeptWhole
      <3>. QED  BY <2>1, <3>1, <3>2
    <2>. QED  BY <2>6 DEF WritesWhole
  <1>12. ASSUME NEW c \in certifying, CommitCertify(c)
         PROVE  WritesWhole'
    <2>1. /\ c.record \in DOMAIN records
          /\ \A x \in DOMAIN records : x # c.record => records'[x] = records[x]
          /\ certifying' = certifying \ {c} /\ raced' = Raced(c.record, certifying \ {c})
          /\ courses' = courses /\ outdated' = outdated
      BY <1>12, CommittedRow DEF CommitCertify
    <2>. QED  BY <1>7, <2>1
  <1>13. ASSUME NEW c \in certifying, AbandonCertify(c)
         PROVE  WritesWhole'
    BY <1>1, <1>13 DEF AbandonCertify, Kept, PeriodOf, history
  <1>14. CASE Next
    <2>1. \A e : AddEmployee(e) \/ RemoveEmployee(e)
                    => UNCHANGED <<courses, records, certifying, raced, outdated>>
      BY DEF AddEmployee, RemoveEmployee, history
    <2>. QED  BY <1>2, <1>3, <1>4, <1>5, <1>6, <1>8, <1>9, <1>10, <1>11, <1>12, <1>13, <1>14, <2>1,
                 Steps DEF Inv
  <1>. QED  BY <1>2, <1>14 DEF vars, history

WholeInv == Inv /\ Rows /\ WritesWhole

LEMMA WholeInvariant == Spec => []WholeInv
  <1>1. Init => WholeInv
    BY InitInv DEF Init, WholeInv, Rows, WritesWhole
  <1>2. WholeInv /\ [Next]_vars => WholeInv'
    BY StepInv, StepRows, StepWhole DEF WholeInv
  <1>. QED  BY <1>1, <1>2, PTL DEF Spec

\* The commit writes what certifying the record in one step would write now.
CertifiesNow(c) ==
    \E trainer \in Users, text \in Texts, when \in Days :
        /\ Certifies(c.record, when)
        /\ records' = [records EXCEPT
               ![c.record] = Certified(@, courses[@.course].period, trainer, text, when)]

LEMMA CommitWhole ==
    ASSUME WholeInv, NEW c \in certifying, CommitCertify(c), c.record \notin raced \cup outdated
    PROVE  CertifiesNow(c)
  <1>1. PICK trainer \in Users, text \in Texts, when \in Days : Signs(c, trainer, text, when)
    BY DEF WholeInv, WritesWhole
  <1>. DEFINE old == records[c.record]
              new == Certified(old, PeriodOf(c.record), trainer, text, when)
  <1>2. /\ c.record \in DOMAIN records
        /\ old = [f \in DOMAIN old |-> old[f]]
        /\ DOMAIN old = {"course", "trainee", "status", "trained_date", "trained_by",
                         "trainee_acknowledgment", "expiry_date"}
    BY DEF WholeInv, Inv, TypeOK, IsRecord, Rows
  <1>3. records' = [records EXCEPT ![c.record] = Merged(old, c.writes)]
    BY DEF CommitCertify, Merged
  <1>4. /\ new = [f \in DOMAIN old |-> new[f]]
        /\ new.course = old.course /\ new.trainee = old.trainee
    BY <1>2 DEF Certified
  <1>5. /\ Certifies(c.record, when)
        /\ DOMAIN c.writes = {f \in Columns : new[f] # old[f]}
        /\ \A f \in DOMAIN c.writes : c.writes[f] = new[f]
    BY <1>1 DEF Signs
  <1>6. PeriodOf(c.record) = courses[old.course].period
    BY DEF PeriodOf
  <1>7. new = Certified(old, courses[old.course].period, trainer, text, when)
    BY <1>6
  <1>. HIDE DEF new
  <1>8. \A f \in DOMAIN old : Merged(old, c.writes)[f] = new[f]
    BY <1>2, <1>4, <1>5 DEF Merged, Columns
  <1>9. Merged(old, c.writes) = [f \in DOMAIN old |-> Merged(old, c.writes)[f]]
    BY DEF Merged
  <1>10. Merged(old, c.writes) = new
    BY <1>4, <1>8, <1>9
  <1>. HIDE DEF old
  <1>11. records' = [records EXCEPT ![c.record] = new]
    BY <1>3, <1>10
  <1>12. records' = [records EXCEPT
             ![c.record] = Certified(@, courses[@.course].period, trainer, text, when)]
    BY <1>7, <1>11 DEF old
  <1>. QED  BY <1>5, <1>12 DEF CertifiesNow

\* A certification of another process, although it writes only the columns that
\* differed when it was decided, leaves the record with one trainer's whole
\* certificate under the policy of the course as it is, unless the record or the
\* policy has changed in between.
THEOREM CertificatesWhole ==
    Spec => [][\A c \in certifying :
                  CommitCertify(c) /\ c.record \notin raced \cup outdated => CertifiesNow(c)]_vars
  <1>1. WholeInv /\ [Next]_vars
           => [\A c \in certifying :
                  CommitCertify(c) /\ c.record \notin raced \cup outdated => CertifiesNow(c)]_vars
    BY CommitWhole
  <1>. QED  BY <1>1, WholeInvariant, PTL DEF Spec

=============================================================================
