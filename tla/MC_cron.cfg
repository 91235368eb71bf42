\* Two definitions, passes that may take longer than a minute, one failing call.
\* The daily job's matches are six minutes apart, one more than ParseCron searches.
CONSTANTS
  daily = daily  often = often
  Definitions = {daily, often}
  Expression <- MCExpression
  Calendar <- MCCalendar
  TicksPerMinute = 2
  MaxIterations = 5
  LastMinute = 6
  MaxFailures = 1
SPECIFICATION Spec
INVARIANTS CronTypeOK OncePerRun
PROPERTIES SkipsOnlyBacklog
