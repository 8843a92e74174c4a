\* docs/deployment-v2.md:77,107-109 - no service of Render is deployed but by
\* the job, so that the API is never older than the worker or the web.
SPECIFICATION ReleasesSpec
CONSTANTS
  MaxCommit = 1  MaxScripts = 1  MaxMishaps = 0
INVARIANT ApiIsNewest
CHECK_DEADLOCK FALSE
