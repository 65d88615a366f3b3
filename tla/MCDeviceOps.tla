---------------------------- MODULE MCDeviceOps ----------------------------
(* Small instances of DeviceOps for TLC.                                   *)
EXTENDS DeviceOps

CONSTANTS q0, q1, t1, t2

MCQueues  == {q0, q1}
MCThreads == {t1, t2}
\* Every two of the seven locked operations are in one mix.
MCMixes ==
  {{"notify_queue", "enable_queue", "add_device_status"},
   {"notify_queue", "set_queue_reset", "get_queue_reset"},
   {"notify_queue", "set_queue_size", "max_queue_size"},
   {"enable_queue", "set_queue_reset", "set_queue_size"},
   {"enable_queue", "get_queue_reset", "max_queue_size"},
   {"add_device_status", "set_queue_reset", "max_queue_size"},
   {"add_device_status", "get_queue_reset", "set_queue_size"},
   {"create", "notify_queue"},
   {"reset_device", "add_device_status"},
   {"reset_device", "create"}}
=============================================================================
