------------------------------ MODULE Queries -------------------------------
(***************************************************************************)
(* What the queries of the frontend read and what its saves change, area   *)
(* by area: for every query key the resources its answer is made of        *)
(* (src/frontend/lib/api, and the serializers behind the endpoints), for   *)
(* every save the resources it changes and the keys its hook invalidates   *)
(* (src/frontend/lib/queries).                                             *)
(*                                                                         *)
(* A resource is a kind of row, or the part of it that other rows take     *)
(* over: how many there are, a price, the teacher of a group.  Names       *)
(* copied into other rows (the student name of an invoice), the audit log  *)
(* every save appends to and what disappears with a deleted row are left   *)
(* out, and so are keys with the id of something a save has only just      *)
(* created: nothing is cached under them yet.                              *)
(***************************************************************************)
EXTENDS TLC

StudentReads ==
  [students |-> {"students", "studentUsers"}, students_page |-> {"students", "studentUsers"},
   student_parents |-> {"parents"}]

StudentAlters ==
  [createStudent |-> {"students", "studentCount"}, updateStudent |-> {"students", "studentUsers", "parents"},
   deleteStudent |-> {"students", "studentCount"}]

\* Fault: the table's key is forgotten.
StudentRefreshesList ==
  [createStudent |-> {"students"}, updateStudent |-> {"students", "student_parents"},
   deleteStudent |-> {"students"}]

StudentRefreshes ==
  [createStudent |-> {"students", "students_page"},
   updateStudent |-> {"students", "students_page", "student_parents"},
   deleteStudent |-> {"students", "students_page"}]

TeacherReads ==
  [teachers |-> {"teachers", "teacherUsers"}, teachers_page |-> {"teachers", "teacherUsers"},
   teacher_specializations |-> {"specializations"}, teacher_salaries |-> {"salaries"}]

\* A specialization and a salary entered with a new teacher are the new teacher's.
TeacherAlters ==
  [createTeacher |-> {"teachers", "teacherCount"}, updateTeacher |-> {"teachers", "teacherUsers"},
   createTeacherSalary |-> {"salaries"}, deleteTeacher |-> {"teachers", "teacherCount"}]

TeacherRefreshes ==
  [createTeacher |-> {"teachers", "teachers_page"}, updateTeacher |-> {"teachers", "teachers_page"},
   createTeacherSalary |-> {"teacher_salaries"}, deleteTeacher |-> {"teachers", "teachers_page"}]

\* The record of one account, of a student, of a teacher or of oneself, under
\* ["user", id].
UserReads ==
  [user_student |-> {"studentUsers"}, user_teacher |-> {"teacherUsers"}, user_self |-> {"self"}]

UserAlters == [updateSelf |-> {"self"}, changePassword |-> {}, resetUserPassword |-> {}]

UserRefreshes == [updateSelf |-> {"user_self"}, changePassword |-> {}, resetUserPassword |-> {}]

\* A course counts its groups and their students.
CourseReads ==
  [courses |-> {"courses", "groupCount", "members"}, courses_page |-> {"courses", "groupCount", "members"}]

CourseAlters ==
  [createCourse |-> {"courses"}, updateCourse |-> {"courses", "coursePrices"}, deleteCourse |-> {"courses"}]

CourseRefreshes ==
  [createCourse |-> {"courses", "courses_page"}, updateCourse |-> {"courses", "courses_page"},
   deleteCourse |-> {"courses", "courses_page"}]

\* A group counts its members and falls back on the price of its course.
GroupReads ==
  [groups |-> {"groups", "members", "coursePrices"}, groups_page |-> {"groups", "members", "coursePrices"},
   group_members |-> {"members"}, student_group_memberships |-> {"members"}]

\* An edit may move a group to another course or teacher.  A member may be added with the first invoice.
GroupAlters ==
  [createGroup |-> {"groups", "groupCount"}, updateGroup |-> {"groups", "groupCount", "groupTeachers"},
   deleteGroup |-> {"groups", "groupCount"},
   addGroupMember |-> {"members", "invoices"}, removeGroupMember |-> {"members"}]

GroupRefreshes ==
  [createGroup |-> {"groups", "groups_page"}, updateGroup |-> {"groups", "groups_page"},
   deleteGroup |-> {"groups", "groups_page"},
   addGroupMember |-> {"group_members", "invoices", "invoices_page", "groups", "groups_page"},
   removeGroupMember |-> {"group_members", "groups", "groups_page"}]

\* A lesson has the teacher of its group.
LessonReads == [lessons |-> {"lessons", "groupTeachers"}]

LessonAlters == [createLesson |-> {"lessons"}, updateLesson |-> {"lessons"}, deleteLesson |-> {"lessons"}]

LessonRefreshes == [m \in DOMAIN LessonAlters |-> {"lessons"}]

AttendanceReads == [attendance |-> {"attendance"}, attendance_page |-> {"attendance"}]

AttendanceAlters ==
  [createAttendance |-> {"attendance"}, updateAttendance |-> {"attendance"}, deleteAttendance |-> {"attendance"}]

AttendanceRefreshes == [m \in DOMAIN AttendanceAlters |-> {"attendance", "attendance_page"}]

ExamReads == [exams |-> {"exams"}, exams_page |-> {"exams"}]

ExamResultReads == [examResults |-> {"results"}]

ExamAlters == [createExam |-> {"exams"}, updateExam |-> {"exams"}, deleteExam |-> {"exams"}]

ExamResultAlters == [saveExamResult |-> {"results"}]

\* Fault: the table's key is forgotten.
ExamRefreshesList ==
  [m \in {"createExam", "updateExam", "deleteExam", "saveExamResult"} |->
     IF m = "saveExamResult" THEN {"examResults"} ELSE {"exams"}]

ExamRefreshes ==
  [createExam |-> {"exams", "exams_page"}, updateExam |-> {"exams", "exams_page"},
   deleteExam |-> {"exams", "exams_page"}, saveExamResult |-> {"examResults"}]

\* An assignment counts the students of its group and what they handed in.
AssignmentReads ==
  [assignments |-> {"assignments", "submissions", "members"},
   assignments_page |-> {"assignments", "submissions", "members"}]

SubmissionReads == [submissions |-> {"submissions"}]

AssignmentAlters ==
  [createAssignment |-> {"assignments"}, updateAssignment |-> {"assignments"}, deleteAssignment |-> {"assignments"}]

SubmissionAlters == [createSubmission |-> {"submissions"}, gradeSubmission |-> {"submissions"}]

HomeworkRefreshes ==
  [createAssignment |-> {"assignments", "assignments_page"},
   updateAssignment |-> {"assignments", "assignments_page"},
   deleteAssignment |-> {"assignments", "assignments_page"},
   createSubmission |-> {"submissions", "assignments", "assignments_page"},
   gradeSubmission |-> {"submissions", "assignments", "assignments_page"}]

\* The paid amount and the status of an invoice follow its payments.
InvoiceReads ==
  [invoices |-> {"invoices", "payments"}, invoices_page |-> {"invoices", "payments"}]

PaymentReads == [payments |-> {"payments"}]

\* What the members of a group owe for a month, and the counts over them.
GroupBillingReads ==
  [group_billing |-> {"groups", "members", "invoices", "payments"},
   group_billing_detail |-> {"members", "invoices", "payments"}]

InvoiceAlters ==
  [createInvoice |-> {"invoices"}, deleteInvoice |-> {"invoices"}, createSelfInvoice |-> {"invoices"}]

PaymentAlters == [createPayment |-> {"payments"}]

\* Paying for a month in a group first creates the month's invoice if there is none.
GroupPaymentAlters == [recordGroupPayment |-> {"payments", "invoices"}]

InvoiceRefreshes ==
  [createInvoice |-> {"invoices", "invoices_page"}, deleteInvoice |-> {"invoices", "invoices_page"},
   createSelfInvoice |-> {"invoices", "invoices_page"},
   createPayment |-> {"payments", "invoices", "invoices_page"}]

GroupPaymentRefreshes == [recordGroupPayment |-> {"group_billing", "payments", "invoices", "invoices_page"}]

ExpenseReads == [expenses |-> {"expenses"}, expenses_page |-> {"expenses"}]

ExpenseAlters ==
  [m \in {"createExpense", "deleteExpense", "approveExpense", "rejectExpense", "markExpensePaid"} |-> {"expenses"}]

ExpenseRefreshes == [m \in DOMAIN ExpenseAlters |-> {"expenses", "expenses_page"}]

PayrollReads == [payroll |-> {"payroll"}, payroll_page |-> {"payroll"}]

PayrollAlters ==
  [m \in {"createPayroll", "deletePayroll", "approvePayroll", "cancelPayroll", "markPayrollPaid"} |-> {"payroll"}]

PayrollRefreshes == [m \in DOMAIN PayrollAlters |-> {"payroll", "payroll_page"}]

GradeReads ==
  LET graded == {"submissions", "assignments", "results", "exams", "attendance", "members"} IN
  [teacher_grade_summary |-> graded \cup {"groups"}, student_grade_summary |-> graded]

ReportReads ==
  LET taught == {"members", "attendance", "assignments", "submissions", "exams", "results"} IN
  [reports_students |-> taught \cup {"students"},
   reports_teachers |-> taught \cup {"teachers", "groups", "lessons"},
   reports_attendance |-> {"attendance"},
   reports_finance |-> {"invoices", "payments", "expenses", "payroll", "students"}]

NotificationReads == [notifications |-> {"notifications"}]

TelegramReads == [telegram |-> {"telegram"}]

NotificationAlters ==
  [createNotification |-> {"notifications"}, markNotificationRead |-> {"notifications"},
   deleteNotification |-> {"notifications"}]

\* ["notifications"] is a prefix of ["notifications", "telegram"].
NotificationRefreshes == [m \in DOMAIN NotificationAlters |-> {"notifications", "telegram"}]

TelegramAlters == [updateMyTelegram |-> {"telegram"}]

GatewayReads == [gateway_accounts |-> {"gateways"}]

\* A checkout makes a gateway transaction, which no key shows.
GatewayAlters ==
  [createGatewayAccount |-> {"gateways"}, updateGatewayAccount |-> {"gateways"},
   deleteGatewayAccount |-> {"gateways"}, initiateCheckout |-> {}]

GatewayRefreshes ==
  [createGatewayAccount |-> {"gateway_accounts"}, updateGatewayAccount |-> {"gateway_accounts"},
   deleteGatewayAccount |-> {"gateway_accounts"}, initiateCheckout |-> {}]

RegionReads == [my_region_settings |-> {"region"}]

RegionAlters == [updateMyRegionSettings |-> {"region"}]

RegionRefreshes == [updateMyRegionSettings |-> {"my_region_settings"}]

\* An organization's row carries its plan and counts its branches and people.
OrganizationReads ==
  LET row == {"organizations", "planTerms", "branchCount", "studentCount", "teacherCount"} IN
  [organizations |-> row, organizations_page |-> row]

OrganizationAlters ==
  [createOrganization |-> {"organizations"}, updateOrganization |-> {"organizations"},
   suspendOrganization |-> {"organizations"}, deleteOrganization |-> {"organizations"}]

OrganizationRefreshes == [m \in DOMAIN OrganizationAlters |-> {"organizations", "organizations_page"}]

BranchReads ==
  LET row == {"branches", "studentCount", "teacherCount"} IN [branches |-> row, branches_page |-> row]

BranchAlters ==
  [createBranch |-> {"branches", "branchCount"}, updateBranch |-> {"branches"}, suspendBranch |-> {"branches"},
   deleteBranch |-> {"branches", "branchCount"}]

BranchRefreshes == [m \in DOMAIN BranchAlters |-> {"branches", "branches_page"}]

AdministratorReads == [administrators |-> {"admins"}, administrators_page |-> {"admins"}]

AdministratorAlters ==
  [createAdministrator |-> {"admins"}, updateAdministrator |-> {"admins"}, suspendAdministrator |-> {"admins"},
   deleteAdministrator |-> {"admins"}]

AdministratorRefreshes == [m \in DOMAIN AdministratorAlters |-> {"administrators", "administrators_page"}]

RoleReads == [roles |-> {"roles"}]

\* A plan counts the organizations that are on it.
PlanReads == [subscription_plans |-> {"plans", "organizations"}]

PlanAlters ==
  [createSubscriptionPlan |-> {"plans"}, updateSubscriptionPlan |-> {"plans", "planTerms"}, deleteSubscriptionPlan |-> {"plans"}]

PlanRefreshes ==
  [createSubscriptionPlan |-> {"subscription_plans"},
   updateSubscriptionPlan |-> {"subscription_plans", "organizations"},
   deleteSubscriptionPlan |-> {"subscription_plans"}]

PlatformInvoiceReads ==
  [platform_invoices |-> {"platformInvoices", "platformPayments"},
   platform_invoices_page |-> {"platformInvoices", "platformPayments"}]

PlatformPaymentReads == [platform_payments |-> {"platformPayments"}]

PlatformInvoiceAlters ==
  [createPlatformInvoice |-> {"platformInvoices"}, deletePlatformInvoice |-> {"platformInvoices"}]

PlatformPaymentAlters == [createPlatformPayment |-> {"platformPayments"}]

PlatformBillingRefreshes ==
  [createPlatformInvoice |-> {"platform_invoices", "platform_invoices_page"},
   deletePlatformInvoice |-> {"platform_invoices", "platform_invoices_page"},
   createPlatformPayment |-> {"platform_payments", "platform_invoices", "platform_invoices_page"}]

AuditReads == [audit_logs |-> {"audit"}]

SettingsReads == [platform_settings |-> {"settings"}, platform_branding |-> {"settings"}]

SettingsAlters == [updatePlatformSettings |-> {"settings"}, testEmailSettings |-> {}, testSmsSettings |-> {}]

SettingsRefreshes ==
  [updatePlatformSettings |-> {"platform_settings", "platform_branding"},
   testEmailSettings |-> {}, testSmsSettings |-> {}]

BackupReads == [platform_backups |-> {"backups"}]

BackupAlters == [runPlatformBackup |-> {"backups"}]

BackupRefreshes == [runPlatformBackup |-> {"platform_backups"}]

ApiKeyReads == [api_keys |-> {"apiKeys"}]

ApiKeyAlters == [createApiKey |-> {"apiKeys"}, rotateApiKey |-> {"apiKeys"}, revokeApiKey |-> {"apiKeys"}]

ApiKeyRefreshes == [m \in DOMAIN ApiKeyAlters |-> {"api_keys"}]

SessionReads == [sessions |-> {"sessions"}]

SessionAlters == [revokeSession |-> {"sessions"}]

SessionRefreshes == [revokeSession |-> {"sessions"}]
=============================================================================
