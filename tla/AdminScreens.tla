---------------------------- MODULE AdminScreens ----------------------------
(***************************************************************************)
(* The screens of a center's administrator (src/frontend/app/(admin)).     *)
(***************************************************************************)
EXTENDS Screens

\* The shell of the portal and its header, mounted around every page.
AppShell == {"platform_branding"}
Header == {"my_region_settings", "notifications"}

DashboardPage ==
  Page({"lessons", "students", "teachers", "courses", "groups", "invoices", "payments", "attendance"}, {})

StudentsPage == Page({"students", "students_page"}, {"deleteStudent"})

StudentDetailPanel ==
  Over("Students", {"student_parents", "telegram", "student_group_memberships", "attendance", "invoices"}, {})

\* One component for a new student and for editing one.  The account record and
\* the parents come from queries of the form's own, read once; code and status
\* from the row.
StudentFormFields(page) ==
  [create |-> Over(page, {"roles"}, {"createStudent"}),
   edit   |-> EditOver(page, {"roles", "user_student", "student_parents"}, "updateStudent",
                       [user_student |-> "once", student_parents |-> "once", students_page |-> "row"])]

ResetPasswordPanel(form) == Over(form, {}, {"resetUserPassword"})

TeachersPage == Page({"teachers", "teachers_page"}, {"deleteTeacher"})

TeacherDetailPanel == Over("Teachers", {"groups", "teacher_specializations", "teacher_salaries"}, {})

TeacherFormFields(page) ==
  [create |-> Over(page, {"roles"}, {"createTeacher"}),
   edit   |-> EditOver(page, {"roles", "user_teacher"}, "updateTeacher",
                       [user_teacher |-> "once", teachers_page |-> "row"])]

TeacherSalaryFields == Over("TeacherDetail", {}, {"createTeacherSalary"})

CoursesPage == Page({"courses", "courses_page"}, {"deleteCourse"})

CourseDetailPanel == Over("Courses", {"groups"}, {})

CourseFormFields(page) ==
  [create |-> Over(page, {}, {"createCourse"}),
   edit   |-> EditOver(page, {}, "updateCourse", [courses_page |-> "row"])]

GroupsPage == Page({"groups", "groups_page"}, {"deleteGroup"})

GroupDetailPanel == Over("Groups", {"group_members", "students"}, {"addGroupMember", "removeGroupMember"})

GroupFormFields(page) ==
  [create |-> Over(page, {"courses", "teachers"}, {"createGroup"}),
   edit   |-> EditOver(page, {"courses", "teachers"}, "updateGroup", [groups_page |-> "row"])]

SchedulePage == Page({"lessons"}, {})

LessonDetailDialog == Over("Schedule", {}, {"updateLesson"})

LessonFormFields == Over("Schedule", {"groups"}, {"createLesson"})

AttendancePage == Page({"groups", "attendance", "attendance_page"}, {})

ExamsPage == Page({"groups", "exams", "exams_page", "examResults"}, {"deleteExam"})

ExamResultsPanel == Over("Exams", {"group_members", "examResults"}, {"saveExamResult", "updateExam"})

ExamFormFields(page) ==
  [create |-> Over(page, {"groups"}, {"createExam"}),
   edit   |-> EditOver(page, {"groups"}, "updateExam", [exams_page |-> "row"])]

HomeworkPage == Page({"groups", "assignments", "assignments_page"}, {})

SubmissionsDetail == Over("Homework", {"submissions"}, {})

\* The invoices tab of the finance page lists groups or invoices.
InvoicesTab ==
  [invoices |-> Page({"invoices", "payments", "invoices_page"}, {"deleteInvoice"}),
   groups   |-> Page({"invoices", "payments", "invoices_page", "group_billing"}, {})]

InvoiceDetailPanel == Over("Invoices", {"payments"}, {"createPayment"})

InvoiceFormFields(page) == Over(page, {"students", "groups"}, {"createInvoice"})

GroupMembersPanel == Over("GroupPayments", {"group_billing_detail"}, {})

PaymentForm == Over("GroupMembers", {}, {"recordGroupPayment"})

ExpensesTab == Page({"expenses", "expenses_page"}, {"deleteExpense"})

ExpenseDetailPanel == Over("Expenses", {}, {"approveExpense", "rejectExpense", "markExpensePaid"})

ExpenseFormFields == Over("Expenses", {"branches"}, {"createExpense"})

PayrollTab == Page({"payroll", "payroll_page"}, {"deletePayroll"})

PayrollDetailPanel == Over("Payroll", {}, {"approvePayroll", "cancelPayroll", "markPayrollPaid"})

PayrollFormFields == Over("Payroll", {"teachers", "teacher_salaries"}, {"createPayroll"})

ReportsPage == Page({"reports_students", "reports_teachers", "reports_attendance", "reports_finance"}, {})

NotificationsPage == Page({"notifications"}, {"markNotificationRead"})

\* The region form is seeded by an effect, once.
SettingsPage ==
  FormPage({"my_region_settings"}, {"changePassword"}, "updateMyRegionSettings", [my_region_settings |-> "once"])

TelegramNotificationsCard == Page({"my_region_settings", "telegram"}, {"updateMyTelegram"})

\* A card per gateway, following its account.
PaymentGatewaysTab ==
  FormPage({"my_region_settings", "gateway_accounts"}, {"createGatewayAccount", "deleteGatewayAccount"},
           "updateGatewayAccount", [gateway_accounts |-> "synced"])

AdminScreens ==
  [Dashboard |-> DashboardPage,
   Students |-> StudentsPage, StudentDetail |-> StudentDetailPanel,
   NewStudent |-> StudentFormFields("Students").create, EditStudent |-> StudentFormFields("Students").edit,
   EditStudentShown |-> StudentFormFields("StudentDetail").edit,
   ResetStudentPassword |-> ResetPasswordPanel("EditStudent"),
   Teachers |-> TeachersPage, TeacherDetail |-> TeacherDetailPanel, NewSalary |-> TeacherSalaryFields,
   NewTeacher |-> TeacherFormFields("Teachers").create, EditTeacher |-> TeacherFormFields("Teachers").edit,
   EditTeacherShown |-> TeacherFormFields("TeacherDetail").edit,
   ResetTeacherPassword |-> ResetPasswordPanel("EditTeacher"),
   Courses |-> CoursesPage, CourseDetail |-> CourseDetailPanel,
   NewCourse |-> CourseFormFields("Courses").create, EditCourse |-> CourseFormFields("Courses").edit,
   EditCourseShown |-> CourseFormFields("CourseDetail").edit,
   Groups |-> GroupsPage, GroupDetail |-> GroupDetailPanel,
   NewGroup |-> GroupFormFields("Groups").create, EditGroup |-> GroupFormFields("Groups").edit,
   Schedule |-> SchedulePage, LessonDetail |-> LessonDetailDialog, NewLesson |-> LessonFormFields,
   Attendance |-> AttendancePage,
   Exams |-> ExamsPage, ExamResults |-> ExamResultsPanel,
   NewExam |-> ExamFormFields("Exams").create, EditExam |-> ExamFormFields("Exams").edit,
   EditExamShown |-> ExamFormFields("ExamResults").edit,
   Homework |-> HomeworkPage, Submissions |-> SubmissionsDetail,
   Invoices |-> InvoicesTab.invoices, GroupPayments |-> InvoicesTab.groups,
   InvoiceDetail |-> InvoiceDetailPanel, NewInvoice |-> InvoiceFormFields("Invoices"),
   GroupMembers |-> GroupMembersPanel, GroupPayment |-> PaymentForm,
   Expenses |-> ExpensesTab, ExpenseDetail |-> ExpenseDetailPanel, NewExpense |-> ExpenseFormFields,
   Payroll |-> PayrollTab, PayrollDetail |-> PayrollDetailPanel, NewPayroll |-> PayrollFormFields,
   Reports |-> ReportsPage, Notifications |-> NotificationsPage,
   Region |-> SettingsPage, Telegram |-> TelegramNotificationsCard, Gateways |-> PaymentGatewaysTab]

\* A payment for a group writes its answer, the month's bill of the group, into
\* the bill's entry; switching Telegram on or off writes the link's.
AdminSetsByHand == [recordGroupPayment |-> {"group_billing_detail"}]
TelegramSetsByHand == [updateMyTelegram |-> {"telegram"}]
=============================================================================
